---- MODULE Spec2Model ----
(***************************************************************************)
(* A model of confluence-dumper (src/confluence_dumper.py, src/utils.py).  *)
(*                                                                         *)
(* Python strings are sequences of one-character strings, so that          *)
(* splitting, searching, sanitising and formatting are computed character  *)
(* by character as the code computes them.  Python dicts are functions.    *)
(***************************************************************************)
EXTENDS Integers, Sequences, FiniteSets, TLC

VARIABLES
    \* ---- one name registry and the last provide_unique_file_name call
    duplicate_file_names,   \* {'<sanitized filename>': amount of duplicates}
    file_matching,          \* {'<file title>': '<used offline filename>'}
    is_folder,              \* the kind of name this registry is used for
    explicit_file_extension,
    file_title,             \* argument of the last call
    file_name,              \* result of the last call
    memo_hit,               \* the last call took the branch of line 93
    n_calls,                \* number of calls made so far
    \* ---- one derive_downloaded_file_name call
    download_url,           \* the argument
    url_shape,              \* how the argument was put together
    derived,                \* what the call gave
    \* ---- the filesystem, the console and the requests sent
    run_io,
    \* ---- download_attachment calls on one attachment registry
    attachment_duplicate_file_names,
    attachment_file_matching,
    fetch_calls,            \* the arguments of the calls made, in order
    fetched,                \* what the last call gave
    \* ---- one space walk's page registry and the operations on it
    page_duplicate_file_names,
    page_file_matching,
    page_content,           \* the body of the last handle_html_references call
    parser_fails,            \* whether the parser raised on it
    rewritten,              \* what the call gave
    persisted,              \* page title -> file name the walker gave the page
    linked,                 \* page title -> href last written into a link to it
    first_seen,             \* page title -> "link" or "page", whichever came first
    \* ---- main
    pc,                     \* "start", "spaces" (in the loop), "finished", "crashed", "interrupted"
    spaces_to_export,
    space_counter,
    duplicate_space_names,
    space_matching,
    remotes,                \* what the service held at each pass of the loop
    walks,                  \* what each pass of the loop gave and logged
    uncaught,               \* the exception that left main, "" for none
    \* ---- one create_html_index call
    index_input,            \* the argument
    html_index              \* what the call gave

names_vars == <<duplicate_file_names, file_matching, is_folder,
                explicit_file_extension, file_title, file_name, memo_hit,
                n_calls>>

derive_vars == <<download_url, url_shape, derived>>

fetch_vars == <<attachment_duplicate_file_names, attachment_file_matching,
                fetch_calls, fetched>>

rewrite_vars == <<page_duplicate_file_names, page_file_matching, page_content,
                  parser_fails, rewritten, persisted, linked, first_seen>>

main_vars == <<pc, spaces_to_export, space_counter, duplicate_space_names,
               space_matching, remotes, walks, uncaught>>

index_vars == <<index_input, html_index>>

vars == <<names_vars, derive_vars, run_io, fetch_vars, rewrite_vars, main_vars,
          index_vars>>

\* What the actions of each specification leave alone
not_names == <<derive_vars, run_io, fetch_vars, rewrite_vars, main_vars, index_vars>>
not_derive == <<names_vars, run_io, fetch_vars, rewrite_vars, main_vars, index_vars>>
not_fetch == <<names_vars, derive_vars, rewrite_vars, main_vars, index_vars>>
not_rewrite == <<names_vars, derive_vars, fetch_vars, main_vars, index_vars>>
not_main == <<names_vars, derive_vars, fetch_vars, rewrite_vars, index_vars>>
not_index == <<names_vars, derive_vars, run_io, fetch_vars, rewrite_vars, main_vars>>

-----------------------------------------------------------------------------
(* Strings *)

None == <<"<None>">>          \* Python's None where a str is expected

RECURSIVE Str(_)
\* str(n) / "%d" % n for n >= 0
Str(n) == IF n < 10
          THEN <<(<<"0", "1", "2", "3", "4", "5", "6", "7", "8", "9">>)[n + 1]>>
          ELSE Str(n \div 10) \o Str(n % 10)

\* c in s, for a single character c
HasChar(s, c) == \E i \in 1..Len(s) : s[i] = c

\* s.rfind(c): the last index of c (0-based), -1 when absent
RFind(s, c) == IF HasChar(s, c)
               THEN (CHOOSE i \in 1..Len(s) :
                        s[i] = c /\ \A j \in (i + 1)..Len(s) : s[j] # c) - 1
               ELSE -1

\* s.find(c): the first index of c (0-based), -1 when absent
Find(s, c) == IF HasChar(s, c)
              THEN (CHOOSE i \in 1..Len(s) :
                       s[i] = c /\ \A j \in 1..(i - 1) : s[j] # c) - 1
              ELSE -1

\* s[a:b] for 0 <= a, with Python's clamping of b
Slice(s, a, b) == LET hi == IF b > Len(s) THEN Len(s) ELSE b
                  IN  IF a >= hi THEN <<>> ELSE SubSeq(s, a + 1, hi)

\* s[:k] for any integer k (a negative k counts from the end)
Prefix(s, k) == IF k >= 0 THEN Slice(s, 0, k)
                ELSE IF Len(s) + k <= 0 THEN <<>> ELSE Slice(s, 0, Len(s) + k)

RECURSIVE Split(_, _)
\* s.split(c) for a single character c: always at least one part
Split(s, c) == IF ~HasChar(s, c) THEN <<s>>
               ELSE LET i == Find(s, c)
                    IN  <<Slice(s, 0, i)>> \o Split(Slice(s, i + 1, Len(s)), c)

\* s.find(pat) for a non-empty string pat: first index (0-based) or -1
FindStr(s, pat) ==
    LET hits == {i \in 0..(Len(s) - Len(pat)) : Slice(s, i, i + Len(pat)) = pat}
    IN  IF hits = {} THEN -1 ELSE CHOOSE i \in hits : \A j \in hits : i <= j

RECURSIVE SplitStr(_, _)
\* s.split(pat) for a non-empty string pat
SplitStr(s, pat) ==
    LET i == FindStr(s, pat)
    IN  IF i = -1 THEN <<s>>
        ELSE <<Slice(s, 0, i)>> \o SplitStr(Slice(s, i + Len(pat), Len(s)), pat)

\* str(x) of a value that is a str or None
StrOf(x) == IF x = <<"<None>">> THEN <<"N", "o", "n", "e">> ELSE x

RECURSIVE Join(_, _)
\* sep.join(parts)
Join(parts, sep) == IF Len(parts) = 0 THEN <<>>
                    ELSE IF Len(parts) = 1 THEN parts[1]
                    ELSE parts[1] \o sep \o Join(Tail(parts), sep)

\* pat in s, for a string pat
Contains(s, pat) == \E i \in 0..(Len(s) - Len(pat)) : Slice(s, i, i + Len(pat)) = pat

\* dict assignment d[k] = v
Put(d, k, v) == [x \in (DOMAIN d) \cup {k} |-> IF x = k THEN v ELSE d[x]]

EmptyDict == [x \in {} |-> 0]

\* What a call gives: a value, or the exception it raises ("" for none).
Return(v) == [exc |-> "", val |-> v]
Raise(e) == [exc |-> e, val |-> <<"<None>">>]

-----------------------------------------------------------------------------
(* utils.sanitize_for_filename *)

sanitize_char(c) ==
    IF c \in {"\\", "/", ":", "*", "?", "\"", "<", ">", "|"} THEN "_" ELSE c

sanitize_for_filename(original_string) ==
    [i \in 1..Len(original_string) |-> sanitize_char(original_string[i])]

-----------------------------------------------------------------------------
(* provide_unique_file_name *)

\* Lines 97-105: the sanitized base name and the extension (None when there
\* is none) of an already sanitized title.
split_extension(s, folder, ext) ==
    IF folder THEN [base |-> s, ext |-> None]
    ELSE IF ext # None /\ ext # <<>> THEN [base |-> s, ext |-> ext]
    ELSE IF HasChar(s, ".")
         THEN [base |-> Slice(s, 0, RFind(s, ".")),
               ext  |-> Slice(s, RFind(s, ".") + 1, Len(s))]
         ELSE [base |-> s, ext |-> None]

\* Lines 113-117: the extension is attached and the name is remembered.
remember_name(dups, matching, title, stem, ext) ==
    [file_name |-> IF ext # None /\ ext # <<>> THEN stem \o <<".">> \o ext ELSE stem,
     duplicate_file_names |-> dups,
     file_matching |-> Put(matching, title,
                           IF ext # None /\ ext # <<>>
                           THEN stem \o <<".">> \o ext ELSE stem)]

\* A variant that suffixes with the counter as it was before line 108.
count_duplicate_stale(dups, matching, title, se) ==
    IF se.base \in DOMAIN dups
    THEN remember_name(Put(dups, se.base, dups[se.base] + 1), matching, title,
                       se.base \o <<"_">> \o Str(dups[se.base]), se.ext)
    ELSE remember_name(Put(dups, se.base, 0), matching, title, se.base, se.ext)

\* Lines 107-111: the duplicate counter of the base name.
count_duplicate(dups, matching, title, se) ==
    IF se.base \in DOMAIN dups
    THEN remember_name(Put(dups, se.base, dups[se.base] + 1), matching, title,
                       se.base \o <<"_">> \o Str(dups[se.base] + 1), se.ext)
    ELSE remember_name(Put(dups, se.base, 0), matching, title, se.base, se.ext)

\* A variant that forgets the memoization of lines 92-93.
provide_unique_file_name_no_memo(dups, matching, title, folder, ext) ==
    count_duplicate(dups, matching, title,
                    split_extension(sanitize_for_filename(title), folder, ext))

\* The result and the two dicts after the call.
provide_unique_file_name(dups, matching, title, folder, ext) ==
    IF title \in DOMAIN matching
    THEN [file_name |-> matching[title],
          duplicate_file_names |-> dups,
          file_matching |-> matching]
    ELSE count_duplicate(dups, matching, title,
                         split_extension(sanitize_for_filename(title), folder, ext))

-----------------------------------------------------------------------------
(* derive_downloaded_file_name *)

S_download == <<"/", "d", "o", "w", "n", "l", "o", "a", "d", "/">>

S_attachments == <<"a", "t", "t", "a", "c", "h", "m", "e", "n", "t", "s">>

S_thumbnails == <<"t", "h", "u", "m", "b", "n", "a", "i", "l", "s">>

S_conversion_thumbnail ==
    <<"/", "r", "e", "s", "t", "/",
      "d", "o", "c", "u", "m", "e", "n", "t",
      "C", "o", "n", "v", "e", "r", "s", "i", "o", "n", "/",
      "l", "a", "t", "e", "s", "t", "/",
      "c", "o", "n", "v", "e", "r", "s", "i", "o", "n", "/",
      "t", "h", "u", "m", "b", "n", "a", "i", "l", "/">>

S_generated_preview ==
    <<"g", "e", "n", "e", "r", "a", "t", "e", "d", "_",
      "p", "r", "e", "v", "i", "e", "w", "_">>

S_jpg == <<"j", "p", "g">>

html == <<"h", "t", "m", "l">>

\* Lines 62-64: "Remove GET parameters".
strip_get_parameters(part) == Prefix(part, RFind(part, "?"))

\* Lines 58-66, on the parts of the URL between its slashes.
derive_from_parts(download_url_parts) ==
    IF Len(download_url_parts) < 5 THEN Raise("IndexError")
    ELSE Return(download_url_parts[4] \o <<"_">>
                \o download_url_parts[3] \o <<"_">>
                \o strip_get_parameters(download_url_parts[5]))

derive_downloaded_file_name(url) ==
    IF Contains(url, S_download)
    THEN derive_from_parts(Split(url, "/"))
    ELSE IF Contains(url, S_conversion_thumbnail)
    THEN Return(S_generated_preview
                \o Prefix(SplitStr(url, S_conversion_thumbnail)[2], -2)
                \o <<".">> \o S_jpg)
    ELSE Return(None)

-----------------------------------------------------------------------------
(* utils.decode_url and utils.encode_url (urllib.parse.unquote and quote)  *)
(* on printable ASCII                                                      *)

\* The characters with codes 32..126, in code order (the module language has
\* no string for the character of code 96, which "<backtick>" stands for)
ASCII ==
    <<" ", "!", "\"", "#", "$", "%", "&", "'", "(", ")", "*", "+",
      ",", "-", ".", "/", "0", "1", "2", "3", "4", "5", "6", "7",
      "8", "9", ":", ";", "<", "=", ">", "?", "@", "A", "B", "C",
      "D", "E", "F", "G", "H", "I", "J", "K", "L", "M", "N", "O",
      "P", "Q", "R", "S", "T", "U", "V", "W", "X", "Y", "Z", "[",
      "\\", "]", "^", "_", "<backtick>", "a", "b", "c", "d", "e", "f", "g",
      "h", "i", "j", "k", "l", "m", "n", "o", "p", "q", "r", "s",
      "t", "u", "v", "w", "x", "y", "z", "{", "|", "}", "~" >>

HEX == <<"0", "1", "2", "3", "4", "5", "6", "7", "8", "9",
         "A", "B", "C", "D", "E", "F">>
hex == <<"0", "1", "2", "3", "4", "5", "6", "7", "8", "9",
         "a", "b", "c", "d", "e", "f">>

IsHex(c) == \E i \in 1..16 : HEX[i] = c \/ hex[i] = c

HexVal(c) == (CHOOSE i \in 1..16 : HEX[i] = c \/ hex[i] = c) - 1

RECURSIVE HexStr(_, _)
\* "%0<width>X" % n
HexStr(n, width) ==
    IF n = 0 /\ width <= 0 THEN ""
    ELSE HexStr(n \div 16, width - 1) \o HEX[(n % 16) + 1]

\* chr(n).  A character the module language has no string for is the
\* one-element string "<U+XXXX>" of its code point (code 96 is "<backtick>").
Chr(n) ==
    IF n \in 32..126 THEN ASCII[n - 31]
    ELSE IF n = 9 THEN "\t"
    ELSE IF n = 10 THEN "\n"
    ELSE IF n = 12 THEN "\f"
    ELSE IF n = 13 THEN "\r"
    ELSE "<U+" \o HexStr(n, 4) \o ">"

\* c is one of the characters of code 0..127
IsAscii(c) == (\E i \in 1..Len(ASCII) : ASCII[i] = c) \/ (\E n \in 0..127 : Chr(n) = c)

RECURSIVE HexNum(_)
\* int(digits, 16) of a string of hex digits
HexNum(digits) ==
    IF digits = "" THEN 0
    ELSE 16 * HexNum(SubSeq(digits, 1, Len(digits) - 1))
         + HexVal(SubSeq(digits, Len(digits), Len(digits)))

\* ord(c): the code of a character written "<U+XXXX>" is read from its digits
Ord(c) ==
    IF \E i \in 1..Len(ASCII) : ASCII[i] = c
    THEN (CHOOSE i \in 1..Len(ASCII) : ASCII[i] = c) + 31
    ELSE IF Len(c) = 1 THEN CHOOSE n \in 0..127 : Chr(n) = c
    ELSE HexNum(SubSeq(c, 4, Len(c) - 1))

\* c is a surrogate code point (U+D800..U+DFFF), which json.loads gives for
\* an escape like "\ud800" that has no partner
IsSurrogate(c) ==
    /\ Len(c) = 8
    /\ SubSeq(c, 1, 4) = "<U+D"
    /\ SubSeq(c, 5, 5) \in {"8", "9", "A", "B", "C", "D", "E", "F"}

\* The string holds a surrogate
HasSurrogate(s) == \E i \in 1..Len(s) : IsSurrogate(s[i])

\* quote() leaves these alone: letters, digits, "_.-~" and the default safe "/"
QuoteSafe ==
    { ASCII[i] : i \in (Ord("A") - 31)..(Ord("Z") - 31) }
      \cup { ASCII[i] : i \in (Ord("a") - 31)..(Ord("z") - 31) }
      \cup { ASCII[i] : i \in (Ord("0") - 31)..(Ord("9") - 31) }
      \cup {"_", ".", "-", "~", "/"}

\* chr(n).encode("utf-8"), as a sequence of byte values; the strict encoder
\* raises UnicodeEncodeError on a surrogate
utf8_encode(n) ==
    IF n \in 55296..57343 THEN Raise("UnicodeEncodeError")
    ELSE IF n < 128 THEN Return(<<n>>)
    ELSE IF n < 2048 THEN Return(<<192 + (n \div 64), 128 + (n % 64)>>)
    ELSE IF n < 65536
    THEN Return(<<224 + (n \div 4096), 128 + ((n \div 64) % 64), 128 + (n % 64)>>)
    ELSE Return(<<240 + (n \div 262144), 128 + ((n \div 4096) % 64),
                  128 + ((n \div 64) % 64), 128 + (n % 64)>>)

RECURSIVE percent_bytes(_)
\* "%XY" for each byte
percent_bytes(bytes) ==
    IF bytes = <<>> THEN <<>>
    ELSE <<"%", HEX[(Head(bytes) \div 16) + 1], HEX[(Head(bytes) % 16) + 1]>>
         \o percent_bytes(Tail(bytes))

RECURSIVE Concat(_, _, _)
\* pieces[lo] \o ... \o pieces[hi], joined by halves
Concat(pieces, lo, hi) ==
    IF lo > hi THEN <<>>
    ELSE IF lo = hi THEN pieces[lo]
    ELSE Concat(pieces, lo, (lo + hi) \div 2) \o Concat(pieces, ((lo + hi) \div 2) + 1, hi)

\* urllib.parse.quote once the string has been encoded: every character
\* that is not safe becomes the escapes of its UTF-8 bytes.
quote_from_bytes(string) ==
    Concat([i \in 1..Len(string) |->
              IF string[i] \in QuoteSafe THEN <<string[i]>>
              ELSE percent_bytes(utf8_encode(Ord(string[i])).val)],
           1, Len(string))

\* urllib.parse.quote, which encodes the whole string as UTF-8 before it
\* escapes anything: a surrogate anywhere in it raises UnicodeEncodeError.
encode_url(decoded_url) ==
    IF HasSurrogate(decoded_url) THEN Raise("UnicodeEncodeError")
    ELSE Return(quote_from_bytes(decoded_url))

\* An escape %XY of two hex digits starts at index i of the string
IsEscape(string, i) ==
    /\ i >= 1 /\ i + 2 <= Len(string)
    /\ string[i] = "%"
    /\ IsHex(string[i + 1]) /\ IsHex(string[i + 2])

\* urllib.parse.unquote_to_bytes: an escape %XY of two hex digits is the
\* byte [b |-> 16X+Y]; any other character is [c |-> the character].  (An
\* ASCII character is a byte below 128, which ends a sequence before it and
\* decodes to itself, and a character outside ASCII is passed on between
\* the runs unquote decodes: both are read alike.)  The two digits of an
\* escape are no "%", so that no escape starts within another.
unquote_to_bytes(string) ==
    Concat([i \in 1..Len(string) |->
              IF IsEscape(string, i)
              THEN <<[b |-> 16 * HexVal(string[i + 1]) + HexVal(string[i + 2])]>>
              ELSE IF IsEscape(string, i - 1) \/ IsEscape(string, i - 2) THEN <<>>
              ELSE <<[c |-> string[i]]>>],
           1, Len(string))

\* Item i is a byte between lo and hi
ByteIn(items, i, lo, hi) ==
    i >= 1 /\ i <= Len(items) /\ "b" \in DOMAIN items[i] /\ items[i].b \in lo..hi

\* The least and the greatest second byte a lead byte of a three- or
\* four-byte sequence may have
SecondLo(lead) == IF lead = 224 THEN 160 ELSE IF lead = 240 THEN 144 ELSE 128
SecondHi(lead) == IF lead = 237 THEN 159 ELSE IF lead = 244 THEN 143 ELSE 191

REPLACEMENT == Chr(65533)

\* What the decoder reads at item i, where a sequence starts: the character
\* and the number of items it takes.  Every ill-formed sequence gives one
\* U+FFFD for its longest well-formed start.
utf8_unit(items, i) ==
    IF "c" \in DOMAIN items[i] THEN [char |-> items[i].c, len |-> 1]
    ELSE IF items[i].b < 128 THEN [char |-> Chr(items[i].b), len |-> 1]
    ELSE IF items[i].b \in 194..223
    THEN IF ByteIn(items, i + 1, 128, 191)
         THEN [char |-> Chr((items[i].b - 192) * 64 + (items[i + 1].b - 128)), len |-> 2]
         ELSE [char |-> REPLACEMENT, len |-> 1]
    ELSE IF items[i].b \in 224..239
    THEN IF ~ByteIn(items, i + 1, SecondLo(items[i].b), SecondHi(items[i].b))
         THEN [char |-> REPLACEMENT, len |-> 1]
         ELSE IF ~ByteIn(items, i + 2, 128, 191)
         THEN [char |-> REPLACEMENT, len |-> 2]
         ELSE [char |-> Chr((items[i].b - 224) * 4096 + (items[i + 1].b - 128) * 64
                            + (items[i + 2].b - 128)),
               len |-> 3]
    ELSE IF items[i].b \in 240..244
    THEN IF ~ByteIn(items, i + 1, SecondLo(items[i].b), SecondHi(items[i].b))
         THEN [char |-> REPLACEMENT, len |-> 1]
         ELSE IF ~ByteIn(items, i + 2, 128, 191)
         THEN [char |-> REPLACEMENT, len |-> 2]
         ELSE IF ~ByteIn(items, i + 3, 128, 191)
         THEN [char |-> REPLACEMENT, len |-> 3]
         ELSE [char |-> Chr((items[i].b - 240) * 262144 + (items[i + 1].b - 128) * 4096
                            + (items[i + 2].b - 128) * 64 + (items[i + 3].b - 128)),
               len |-> 4]
    ELSE [char |-> REPLACEMENT, len |-> 1]

\* Item i belongs to the sequence of a lead byte before it.  A lead byte
\* that takes more than itself is none that a sequence continues with, so
\* that a sequence starts at each of them.
IsContinuation(items, i) ==
    \E j \in (i - 3)..(i - 1) : ByteIn(items, j, 194, 244) /\ j + utf8_unit(items, j).len > i

\* bytes.decode("utf-8", "replace") of each run of bytes
utf8_decode(items) ==
    Concat([i \in 1..Len(items) |->
              IF IsContinuation(items, i) THEN <<>> ELSE <<utf8_unit(items, i).char>>],
           1, Len(items))

\* urllib.parse.unquote: every escape %XY of two hex digits is replaced, the
\* bytes are read as UTF-8, and anything else that starts with "%" stays.
decode_url(encoded_url) ==
    IF ~HasChar(encoded_url, "%") THEN encoded_url
    ELSE utf8_decode(unquote_to_bytes(encoded_url))

-----------------------------------------------------------------------------
(* utils.is_file_format and the settings *)

is_file_format(name, file_extensions) ==
    LET parts == Split(name, ".") IN parts[Len(parts)] \in file_extensions

CONFLUENCE_THUMBNAIL_FORMATS ==
    { <<"g", "i", "f">>, <<"j", "p", "e", "g">>, <<"j", "p", "g">>, <<"p", "n", "g">> }

CONFLUENCE_GENERATED_PREVIEW_FORMATS == { <<"p", "d", "f">> }

EXPORT_FOLDER == <<"e", "x", "p", "o", "r", "t">>

DOWNLOAD_SUB_FOLDER == S_attachments

-----------------------------------------------------------------------------
(* The filesystem, the console and the remote service                      *)
(*                                                                         *)
(* io.fs maps each existing path to what is stored there; io.log lists, in *)
(* order, the requests sent, the files written and the warnings and errors *)
(* printed.  A world says what the remote service answers: "ok" (HTTP      *)
(* 200), "http" (any other status: utils raises ConfluenceException),      *)
(* "transport" (requests.get itself raises), and for a file also "broken"  *)
(* (200, and the body breaks off), "interrupt" (the user's Ctrl-C while    *)
(* the request waits) or "interrupt-copy" (200, and the user's Ctrl-C      *)
(* while the body is copied).                                              *)

EmptyIO == [fs |-> EmptyDict, log |-> <<>>]

Logged(io, entry) == [io EXCEPT !.log = Append(@, entry)]

\* os.path.join(folder, name)
PathTo(folder, name) == IF folder = <<>> THEN name ELSE folder \o <<"/">> \o name

RECURSIVE norm_parts(_, _)
\* The components of os.path.normpath of a relative path: empty components
\* and "." go, and ".." takes the component before it with it.
norm_parts(parts, done) ==
    IF parts = <<>> THEN done
    ELSE IF Head(parts) = <<>> \/ Head(parts) = <<".">> THEN norm_parts(Tail(parts), done)
    ELSE IF Head(parts) = <<".", ".">> /\ done # <<>> /\ done[Len(done)] # <<".", ".">>
    THEN norm_parts(Tail(parts), Slice(done, 0, Len(done) - 1))
    ELSE norm_parts(Tail(parts), Append(done, Head(parts)))

\* The name the filesystem knows a relative path by: "export/" and
\* "export//A" are "export" and "export/A"; <<>> is the working directory.
NormPath(path) == Join(norm_parts(Split(path, "/"), <<>>), <<"/">>)

\* The normalised path names a folder: the working directory, the folder
\* above it, or a folder that was made
IsDir(io, norm) ==
    \/ norm = <<>>
    \/ norm = <<".", ".">>
    \/ norm \in DOMAIN io.fs /\ io.fs[norm].kind = "dir"

\* The number of bytes os.fsencode gives for a character: those of its
\* UTF-8 form, and one for a surrogate U+DC80..U+DCFF (surrogateescape)
char_bytes(c) ==
    IF Len(c) = 1 \/ Ord(c) < 128 \/ Ord(c) \in 56448..56575 THEN 1
    ELSE IF Ord(c) < 2048 THEN 2
    ELSE IF Ord(c) < 65536 THEN 3
    ELSE 4

\* len(os.fsencode(s))
fs_bytes(s) ==
    Cardinality({i \in 1..Len(s) : char_bytes(s[i]) = 1})
      + 2 * Cardinality({i \in 1..Len(s) : char_bytes(s[i]) = 2})
      + 3 * Cardinality({i \in 1..Len(s) : char_bytes(s[i]) = 3})
      + 4 * Cardinality({i \in 1..Len(s) : char_bytes(s[i]) = 4})

\* The longest file name and the longest path the system takes, in bytes
NAME_MAX == 255
PATH_MAX == 4095

\* s has more than limit bytes (a character has at most four)
LongerThan(s, limit) == 4 * Len(s) > limit /\ fs_bytes(s) > limit

\* The exception of a call that passes the path to the system, before the
\* system sees it: os.fsencode raises UnicodeEncodeError on a surrogate it
\* cannot escape, and a NUL character is a ValueError.
fsencode_error(path) ==
    IF \E i \in 1..Len(path) :
          IsSurrogate(path[i]) /\ Ord(path[i]) \notin 56448..56575
    THEN "UnicodeEncodeError"
    ELSE IF HasChar(path, Chr(0)) THEN "ValueError"
    ELSE ""

RECURSIVE walk_to(_, _, _)
\* How the system resolves a relative path, component by component, from the
\* folder at (normalised): every component before the last must lead to a
\* folder, and a name of more than NAME_MAX bytes is refused (ENAMETOOLONG,
\* an OSError).  Gives the error met, the folder reached and the last
\* component; slash says that only slashes follow the component that failed.
walk_to(io, parts, at) ==
    IF Len(parts) = 1 THEN [err |-> "", at |-> at, last |-> parts[1]]
    ELSE IF ~IsDir(io, NormPath(PathTo(at, Head(parts))))
    THEN [err |-> IF LongerThan(Head(parts), NAME_MAX) THEN "OSError"
                  ELSE IF NormPath(PathTo(at, Head(parts))) \in DOMAIN io.fs
                  THEN "NotADirectoryError" ELSE "FileNotFoundError",
          at |-> at, last |-> <<>>,
          slash |-> \A i \in 2..Len(parts) : parts[i] = <<>>]
    ELSE walk_to(io, Tail(parts), NormPath(PathTo(at, Head(parts))))

\* What the resolution w of a path says of the path's existence: its last
\* component is empty, "." or ".." (the folder reached, or the one above
\* it), or a name that is there.
exists_at(io, w) ==
    /\ w.err = ""
    /\ \/ IsDir(io, NormPath(PathTo(w.at, w.last)))
       \/ NormPath(PathTo(w.at, w.last)) \in DOMAIN io.fs

\* os.path.exists(path): False for the empty path and wherever the call to
\* the system raises (a path that cannot be encoded, a NUL character, a
\* path of more than PATH_MAX bytes).
Exists(io, path) ==
    /\ path # <<>>
    /\ fsencode_error(path) = ""
    /\ ~LongerThan(path, PATH_MAX)
    /\ exists_at(io, walk_to(io, Split(path, "/"), <<>>))

\* open(path, "w") of a path resolved as w: a name that is no folder,
\* followed by a slash, cannot be created as a file, and neither can a name
\* of more than NAME_MAX bytes.
open_error_at(io, w) ==
    IF w.err # "" /\ w.slash THEN "IsADirectoryError"
    ELSE IF w.err # "" THEN w.err
    ELSE IF IsDir(io, NormPath(PathTo(w.at, w.last))) THEN "IsADirectoryError"
    ELSE IF LongerThan(w.last, NAME_MAX) THEN "OSError"
    ELSE ""

\* The exception open(path, "w") raises, "" when the file is opened.
open_error(io, path) ==
    IF fsencode_error(path) # "" THEN fsencode_error(path)
    ELSE IF LongerThan(path, PATH_MAX) THEN "OSError"
    ELSE IF path = <<>> THEN "FileNotFoundError"
    ELSE open_error_at(io, walk_to(io, Split(path, "/"), <<>>))

Stored(io, path, what) == [io EXCEPT !.fs = Put(@, NormPath(path), what)]

\* path.rstrip("/")
rstrip_slashes(path) ==
    Slice(path, 0, Cardinality({i \in 1..Len(path) :
                                  \E j \in i..Len(path) : path[j] # "/"}))

\* os.path.split(path) of a relative path: what stands before the last
\* slash, without the slashes it ends with, and what stands after it
path_split(path) ==
    [head |-> rstrip_slashes(Slice(path, 0, RFind(path, "/") + 1)),
     tail |-> Slice(path, RFind(path, "/") + 1, Len(path))]

\* os.mkdir(path) of a path resolved as w
mkdir_error_at(io, w) ==
    IF w.err # "" THEN w.err
    ELSE IF exists_at(io, w) THEN "FileExistsError"
    ELSE IF LongerThan(w.last, NAME_MAX) THEN "OSError"
    ELSE ""

\* The exception os.mkdir(path) raises, "" when the folder is made; the
\* slashes a path ends with do not count.
mkdir_error(io, path) ==
    IF fsencode_error(path) # "" THEN fsencode_error(path)
    ELSE IF LongerThan(path, PATH_MAX) THEN "OSError"
    ELSE IF path = <<>> THEN "FileNotFoundError"
    ELSE mkdir_error_at(io, walk_to(io, Split(rstrip_slashes(path), "/"), <<>>))

\* os.mkdir(path): the exception it raises and io after it
mkdir(io, path) ==
    IF mkdir_error(io, path) # "" THEN [exc |-> mkdir_error(io, path), io |-> io]
    ELSE [exc |-> "", io |-> Stored(io, path, [kind |-> "dir"])]

RECURSIVE makedirs(_, _)

\* os.makedirs(name) once the folder above it was made, which gave made:
\* that the folder above is there does not matter, and nothing is left to
\* do for a name that ends with "."
makedirs_below(name, tail, made) ==
    IF made.exc \notin {"", "FileExistsError"} THEN made
    ELSE IF tail = <<".">> THEN [exc |-> "", io |-> made.io]
    ELSE mkdir(made.io, name)

\* os.makedirs(name) once name is split in head and tail
makedirs_split(io, name, parts) ==
    IF parts.head # <<>> /\ parts.tail # <<>> /\ ~Exists(io, parts.head)
    THEN makedirs_below(name, parts.tail, makedirs(io, parts.head))
    ELSE mkdir(io, name)

\* os.makedirs(name): the folders that miss on the way are made, then the
\* folder itself; gives the exception raised and io after the call.
makedirs(io, name) ==
    makedirs_split(io, name,
                   IF path_split(name).tail = <<>> THEN path_split(path_split(name).head)
                   ELSE path_split(name))


Printed(level, stream) == [ev |-> "print", level |-> level, stream |-> stream]

\* The exception of print(text): sys.stdout encodes the text as UTF-8 with
\* the handler surrogateescape (the stream of the C.UTF-8 locale), which
\* turns U+DC80..U+DCFF into bytes and raises UnicodeEncodeError on any other
\* surrogate, before anything is written.  error_print writes to sys.stderr,
\* whose handler backslashreplace raises on no character.
print_error(text) ==
    IF \E i \in 1..Len(text) :
          IsSurrogate(text[i]) /\ Ord(text[i]) \notin 56448..56575
    THEN "UnicodeEncodeError"
    ELSE ""

\* Status of the GET for a file: "ok" unless the world says otherwise
DownloadStatus(world, url) ==
    IF url \in DOMAIN world.downloads THEN world.downloads[url] ELSE "ok"

PathJoin(folder, name) == folder \o <<"/">> \o name

-----------------------------------------------------------------------------
(* download_file *)

\* Lines 219-233 and utils.py lines 56-64: what the answer to the request
\* does.  A 200 answer opens the file, which raises when its folder is not
\* there or the system refuses its name; when the body breaks off while it
\* is copied (status "broken") the file stays as far as it was written and
\* the read error of the transport's stream, which is no OSError, leaves the
\* call.  An interrupt from the keyboard raises KeyboardInterrupt: while the
\* request waits (status "interrupt") no file is opened, while the body is
\* copied (status "interrupt-copy") the file stays as far as it was written.
\* Another status than 200 raises ConfluenceException, whose message holds
\* the URL: line 231 prints it to stderr, line 233 to stdout, where the print
\* raises inside the handler on a URL it cannot encode.
transfer(sent, status, clean_url, path, error_output) ==
    IF status \in {"ok", "broken", "interrupt-copy"} /\ open_error(sent, path) # ""
    THEN [exc |-> open_error(sent, path), val |-> None, io |-> sent]
    ELSE IF status = "ok"
    THEN [exc |-> "", val |-> path,
          io |-> Stored(sent, path, [kind |-> "file", url |-> clean_url])]
    ELSE IF status = "broken"
    THEN [exc |-> "ProtocolError", val |-> None,
          io |-> Stored(sent, path, [kind |-> "partial", url |-> clean_url])]
    ELSE IF status = "interrupt-copy"
    THEN [exc |-> "KeyboardInterrupt", val |-> None,
          io |-> Stored(sent, path, [kind |-> "partial", url |-> clean_url])]
    ELSE IF status = "http" /\ ~error_output /\ print_error(clean_url) # ""
    THEN [exc |-> print_error(clean_url), val |-> None, io |-> sent]
    ELSE IF status = "http"
    THEN [exc |-> "", val |-> path,
          io |-> Logged(sent, IF error_output THEN Printed("ERROR", "stderr")
                              ELSE Printed("WARNING", "stdout"))]
    ELSE IF status = "interrupt"
    THEN [exc |-> "KeyboardInterrupt", val |-> None, io |-> sent]
    ELSE [exc |-> "TransportError", val |-> None, io |-> sent]

\* Lines 216-233: the file's name is printed (line 218), which raises on a
\* name the console cannot encode before any request is sent; then the
\* request is sent.
request_file(io, status, clean_url, path, downloaded_file_name, error_output) ==
    IF print_error(downloaded_file_name) # ""
    THEN [exc |-> print_error(downloaded_file_name), val |-> None, io |-> io]
    ELSE transfer(Logged(io, [ev |-> "download", url |-> clean_url,
                              path |-> path, status |-> status]),
                  status, clean_url, path, error_output)

\* A variant without the existence test of line 215.
download_file_always(io, world, clean_url, download_folder, downloaded_file_name, error_output) ==
    request_file(io, DownloadStatus(world, clean_url), clean_url,
                 PathJoin(download_folder, downloaded_file_name),
                 downloaded_file_name, error_output)

\* The path returned, the exception that leaves the call, and io after it.
download_file(io, world, clean_url, download_folder, downloaded_file_name, error_output) ==
    IF Exists(io, PathJoin(download_folder, downloaded_file_name))
    THEN [exc |-> "", val |-> PathJoin(download_folder, downloaded_file_name),
          io |-> io]
    ELSE request_file(io, DownloadStatus(world, clean_url), clean_url,
                      PathJoin(download_folder, downloaded_file_name),
                      downloaded_file_name, error_output)

-----------------------------------------------------------------------------
(* download_attachment *)

\* str.replace(old, new, 1)
ReplaceFirst(s, old, new) ==
    IF FindStr(s, old) = -1 THEN s
    ELSE Slice(s, 0, FindStr(s, old)) \o new
         \o Slice(s, FindStr(s, old) + Len(old), Len(s))

\* The state a download_attachment call threads through its steps: the
\* exception raised so far, the attachment registry, io, and the primary
\* file's name and path once known.
AttachmentState(e, dups, matching, io, name, path) ==
    [exc |-> e, duplicate_file_names |-> dups, file_matching |-> matching,
     io |-> io, file_name |-> name, file_path |-> path]

\* provide_unique_file_name on the attachment registry for a derived name d
\* (lines 259-261, 267-269, 284-286).  A derived name of None makes re.sub
\* in sanitize_for_filename raise TypeError.
unique_derived(dups, matching, d) ==
    IF d.exc # "" THEN [exc |-> d.exc, file_name |-> None,
                        duplicate_file_names |-> dups,
                        file_matching |-> matching]
    ELSE IF d.val = None
    THEN [exc |-> "TypeError", file_name |-> None,
          duplicate_file_names |-> dups, file_matching |-> matching]
    ELSE [exc |-> ""] @@ provide_unique_file_name(dups, matching, d.val,
                                                  FALSE, None)

\* The state after a download_file call f for a variant of the attachment.
after_variant(st, n, f) ==
    AttachmentState(f.exc, n.duplicate_file_names, n.file_matching, f.io,
                    st.file_name, st.file_path)

\* Lines 281-287 once the preview has its name n.
preview_named(st, world, download_folder, clean_preview_url, n) ==
    IF n.exc # ""
    THEN AttachmentState(n.exc, n.duplicate_file_names, n.file_matching,
                         st.io, st.file_name, st.file_path)
    ELSE after_variant(st, n,
                       download_file(st.io, world, clean_preview_url,
                                     download_folder, n.file_name, FALSE))

\* Lines 280-287: the generated preview, when the primary file has one.
download_preview(st, world, download_folder, attachment_id) ==
    IF st.exc # "" \/ ~is_file_format(st.file_name,
                                      CONFLUENCE_GENERATED_PREVIEW_FORMATS)
    THEN st
    ELSE preview_named(st, world, download_folder,
                       S_conversion_thumbnail \o attachment_id \o <<"/", "1">>,
                       unique_derived(st.duplicate_file_names, st.file_matching,
                           derive_downloaded_file_name(
                               S_conversion_thumbnail \o attachment_id
                                 \o <<"/", "1">>)))

\* Lines 270-278 once the thumbnail has its name n.
thumbnail_named(st, world, download_folder, clean_thumbnail_url, n) ==
    IF n.exc # "" \/ ~is_file_format(n.file_name, CONFLUENCE_THUMBNAIL_FORMATS)
    THEN AttachmentState(n.exc, n.duplicate_file_names, n.file_matching,
                         st.io, st.file_name, st.file_path)
    ELSE after_variant(st, n,
                       download_file(st.io, world, clean_thumbnail_url,
                                     download_folder, n.file_name, FALSE))

\* Lines 264-278: the thumbnail, when its name has a thumbnail format.
download_thumbnail(st, world, download_folder, clean_thumbnail_url) ==
    IF st.exc # "" THEN st
    ELSE thumbnail_named(st, world, download_folder, clean_thumbnail_url,
                         unique_derived(st.duplicate_file_names, st.file_matching,
                             derive_downloaded_file_name(clean_thumbnail_url)))

\* Line 262 once the primary file has its name n.
primary_named(io, world, url, download_folder, n) ==
    IF n.exc # ""
    THEN AttachmentState(n.exc, n.duplicate_file_names, n.file_matching, io,
                         None, None)
    ELSE after_variant([file_name |-> n.file_name,
                        file_path |-> PathJoin(download_folder, n.file_name)],
                       n,
                       download_file(io, world, url, download_folder,
                                     n.file_name, TRUE))

\* Lines 257-262: the primary file.
download_primary(io, world, url, download_folder, dups, matching) ==
    primary_named(io, world, url, download_folder,
                  unique_derived(dups, matching,
                                 derive_downloaded_file_name(decode_url(url))))

\* Line 289: the state after all steps, as the caller sees it.
attachment_result(st) ==
    [exc |-> st.exc,
     val |-> IF st.exc # "" THEN None
             ELSE [file_name |-> st.file_name, file_path |-> st.file_path],
     duplicate_file_names |-> st.duplicate_file_names,
     file_matching |-> st.file_matching,
     io |-> st.io]

\* val is {"file_name": ..., "file_path": ...}
download_attachment(io, world, url, download_folder, attachment_id, dups, matching) ==
    attachment_result(
        download_preview(
            download_thumbnail(
                download_primary(io, world, url, download_folder, dups, matching),
                world, download_folder,
                ReplaceFirst(decode_url(url), <<"/">> \o S_attachments \o <<"/">>,
                             <<"/">> \o S_thumbnails \o <<"/">>)),
            world, download_folder, attachment_id))

-----------------------------------------------------------------------------
(* handle_html_references and its four passes                              *)
(*                                                                         *)
(* A page body is the sequence of its elements; an element has a tag, the  *)
(* attributes href, src and alt (None when absent) and its classes.        *)
(* Whether BeautifulSoup raises on a body is an input (parse_fails).       *)

Element(tag, href, src, alt, class) ==
    [tag |-> tag, href |-> href, src |-> src, alt |-> alt, class |-> class]

S_display == <<"/", "d", "i", "s", "p", "l", "a", "y", "/">>

S_viewpage == <<"/", "p", "a", "g", "e", "s", "/", "v", "i", "e", "w", "p", "a", "g", "e", ".", "a", "c", "t", "i", "o", "n", "?", "p", "a", "g", "e", "I", "d", "=">>

\* str.replace("+", " ")
plus_to_space(s) == [i \in 1..Len(s) |-> IF s[i] = "+" THEN " " ELSE s[i]]

\* Lines 195-199, on the parts of the href between its slashes.
get_page_title(link_element) ==
    LET parts == Split(link_element.href, "/")
    IN  IF Len(parts) >= 5 THEN Return(plus_to_space(parts[5]))
        ELSE IF Len(parts) >= 4 THEN Return(plus_to_space(parts[4]))
        ELSE Raise("IndexError")

\* select('a[href*="/display/"]') and the class test of line 153
IsPageLink(e) ==
    /\ e.tag = "a" /\ e.href # None /\ Contains(e.href, S_display)
    /\ e.class = <<>>

\* select('a[href*="/pages/viewpage.action?pageId="]') and line 166
IsPageIdLink(e) ==
    /\ e.tag = "a" /\ e.href # None /\ Contains(e.href, S_viewpage)
    /\ e.class = <<>>

\* select("a.confluence-embedded-file")
IsAttachmentLink(e) ==
    e.tag = "a" /\ \E i \in 1..Len(e.class) : e.class[i] = "confluence-embedded-file"

\* select('img[src*="/download/"], img[src*=".../thumbnail/"]')
IsImage(e) ==
    /\ e.tag = "img" /\ e.src # None
    /\ (Contains(e.src, S_download) \/ Contains(e.src, S_conversion_thumbnail))

\* What a pass works on and gives: the tree, the page registry, the
\* exception raised ("" for none).
Tree(e, elements, dups, matching) ==
    [exc |-> e, val |-> elements, duplicate_file_names |-> dups,
     file_matching |-> matching]

RECURSIVE handle_links_to_pages(_, _)

\* Lines 157-160 once the link has its offline name r, which is in the
\* registry when encode_url raises.
page_link_named(t, i, r) ==
    IF encode_url(r.file_name).exc # ""
    THEN [t EXCEPT !.exc = encode_url(r.file_name).exc,
                   !.duplicate_file_names = r.duplicate_file_names,
                   !.file_matching = r.file_matching]
    ELSE handle_links_to_pages(
             [t EXCEPT !.val[i].href = encode_url(r.file_name).val,
                       !.duplicate_file_names = r.duplicate_file_names,
                       !.file_matching = r.file_matching],
             i + 1)

\* Lines 155-159 once get_page_title has given title.
page_link_titled(t, i, title) ==
    IF title.exc # "" THEN [t EXCEPT !.exc = title.exc]
    ELSE page_link_named(t, i,
             provide_unique_file_name(t.duplicate_file_names, t.file_matching,
                                      decode_url(title.val), FALSE, html))

\* handle_links_to_pages from element i of the tree on.  Line 154 prints
\* the link's href before anything is done for the link: when the print
\* raises, the registry is as the links before it left it.
handle_links_to_pages(t, i) ==
    IF t.exc # "" \/ i > Len(t.val) THEN t
    ELSE IF ~IsPageLink(t.val[i]) THEN handle_links_to_pages(t, i + 1)
    ELSE IF print_error(t.val[i].href) # ""
    THEN [t EXCEPT !.exc = print_error(t.val[i].href)]
    ELSE page_link_titled(t, i, get_page_title(t.val[i]))

\* Lines 167-168: f"{sanitize_for_filename(page_id)}.html" of a link by page id
page_id_file(link_element) ==
    sanitize_for_filename(SplitStr(link_element.href, S_viewpage)[2]) \o <<".">> \o html

\* Lines 165-170: a link by page id goes to <page id>.html.
handle_links_when_page_ids_used(t) ==
    IF t.exc # "" THEN t
    ELSE IF \E i \in 1..Len(t.val) :
                IsPageIdLink(t.val[i]) /\ encode_url(page_id_file(t.val[i])).exc # ""
    THEN [t EXCEPT !.exc = "UnicodeEncodeError"]
    ELSE [t EXCEPT !.val =
            [i \in 1..Len(t.val) |->
               IF IsPageIdLink(t.val[i])
               THEN [t.val[i] EXCEPT !.href = encode_url(page_id_file(t.val[i])).val]
               ELSE t.val[i]]]

\* f"{settings.DOWNLOAD_SUB_FOLDER}/{file_name}"
relative_file_path(name) == DOWNLOAD_SUB_FOLDER \o <<"/">> \o StrOf(name)

RECURSIVE handle_attachment_links(_, _)

\* Lines 177-178 once derive_downloaded_file_name has given d.
attachment_link_derived(t, i, d) ==
    IF d.exc # "" THEN [t EXCEPT !.exc = d.exc]
    ELSE handle_attachment_links(
             [t EXCEPT !.val[i].href = relative_file_path(d.val)], i + 1)

\* handle_attachment_links from element i of the tree on; link["href"] of
\* a link without href is a KeyError.
handle_attachment_links(t, i) ==
    IF t.exc # "" \/ i > Len(t.val) THEN t
    ELSE IF ~IsAttachmentLink(t.val[i]) THEN handle_attachment_links(t, i + 1)
    ELSE IF t.val[i].href = None THEN [t EXCEPT !.exc = "KeyError"]
    ELSE attachment_link_derived(t, i, derive_downloaded_file_name(t.val[i].href))

RECURSIVE handle_image_links(_, _)

\* Lines 188-191 once derive_downloaded_file_name has given d.
image_link_derived(t, i, d) ==
    IF d.exc # "" THEN [t EXCEPT !.exc = d.exc]
    ELSE handle_image_links(
             [t EXCEPT !.val[i].src = relative_file_path(d.val),
                       !.val[i].alt = IF @ = None THEN relative_file_path(d.val)
                                      ELSE @],
             i + 1)

\* handle_image_links from element i of the tree on.
handle_image_links(t, i) ==
    IF t.exc # "" \/ i > Len(t.val) THEN t
    ELSE IF ~IsImage(t.val[i]) THEN handle_image_links(t, i + 1)
    ELSE image_link_derived(t, i, derive_downloaded_file_name(t.val[i].src))

\* Lines 142-147: the four passes on the parsed tree.
rewrite_passes(html_content, dups, matching) ==
    handle_image_links(
        handle_attachment_links(
            handle_links_when_page_ids_used(
                handle_links_to_pages(Tree("", html_content, dups, matching), 1)),
            1),
        1)

\* A variant that goes on to the passes when parsing has failed.
handle_html_references_parse_unguarded(io, html_content, dups, matching, parse_fails) ==
    IF html_content = <<>>
    THEN Tree("", <<>>, dups, matching) @@ [io |-> io]
    ELSE rewrite_passes(html_content, dups, matching) @@ [io |-> io]

\* val is the markup returned; the page registry and io are as the call
\* leaves them.
handle_html_references(io, html_content, dups, matching, parse_fails) ==
    IF html_content = <<>>
    THEN Tree("", <<>>, dups, matching) @@ [io |-> io]
    ELSE IF parse_fails
    THEN Tree("", html_content, dups, matching)
         @@ [io |-> Logged(io, Printed("WARNING", "stdout"))]
    ELSE rewrite_passes(html_content, dups, matching) @@ [io |-> io]

-----------------------------------------------------------------------------
(* str.lower and urllib.parse.urlparse (Python 3.11, Unicode 14)           *)

\* The characters str.lower maps to one other character: <<first, last,
\* step, offset>> says that every step-th character from first to last is
\* mapped to the character offset code points on.
LOWERCASE ==
    << <<65, 90, 1, 32>>, <<192, 214, 1, 32>>, <<216, 222, 1, 32>>,
      <<256, 302, 2, 1>>, <<306, 310, 2, 1>>, <<313, 327, 2, 1>>,
      <<330, 374, 2, 1>>, <<376, 376, 1, -121>>, <<377, 381, 2, 1>>,
      <<385, 385, 1, 210>>, <<386, 388, 2, 1>>, <<390, 390, 1, 206>>,
      <<391, 391, 1, 1>>, <<393, 394, 1, 205>>, <<395, 395, 1, 1>>,
      <<398, 398, 1, 79>>, <<399, 399, 1, 202>>, <<400, 400, 1, 203>>,
      <<401, 401, 1, 1>>, <<403, 403, 1, 205>>, <<404, 404, 1, 207>>,
      <<406, 406, 1, 211>>, <<407, 407, 1, 209>>, <<408, 408, 1, 1>>,
      <<412, 412, 1, 211>>, <<413, 413, 1, 213>>, <<415, 415, 1, 214>>,
      <<416, 420, 2, 1>>, <<422, 422, 1, 218>>, <<423, 423, 1, 1>>,
      <<425, 425, 1, 218>>, <<428, 428, 1, 1>>, <<430, 430, 1, 218>>,
      <<431, 431, 1, 1>>, <<433, 434, 1, 217>>, <<435, 437, 2, 1>>,
      <<439, 439, 1, 219>>, <<440, 440, 1, 1>>, <<444, 444, 1, 1>>,
      <<452, 452, 1, 2>>, <<453, 453, 1, 1>>, <<455, 455, 1, 2>>,
      <<456, 456, 1, 1>>, <<458, 458, 1, 2>>, <<459, 475, 2, 1>>,
      <<478, 494, 2, 1>>, <<497, 497, 1, 2>>, <<498, 500, 2, 1>>,
      <<502, 502, 1, -97>>, <<503, 503, 1, -56>>, <<504, 542, 2, 1>>,
      <<544, 544, 1, -130>>, <<546, 562, 2, 1>>, <<570, 570, 1, 10795>>,
      <<571, 571, 1, 1>>, <<573, 573, 1, -163>>, <<574, 574, 1, 10792>>,
      <<577, 577, 1, 1>>, <<579, 579, 1, -195>>, <<580, 580, 1, 69>>,
      <<581, 581, 1, 71>>, <<582, 590, 2, 1>>, <<880, 882, 2, 1>>,
      <<886, 886, 1, 1>>, <<895, 895, 1, 116>>, <<902, 902, 1, 38>>,
      <<904, 906, 1, 37>>, <<908, 908, 1, 64>>, <<910, 911, 1, 63>>,
      <<913, 929, 1, 32>>, <<932, 939, 1, 32>>, <<975, 975, 1, 8>>,
      <<984, 1006, 2, 1>>, <<1012, 1012, 1, -60>>, <<1015, 1015, 1, 1>>,
      <<1017, 1017, 1, -7>>, <<1018, 1018, 1, 1>>, <<1021, 1023, 1, -130>>,
      <<1024, 1039, 1, 80>>, <<1040, 1071, 1, 32>>, <<1120, 1152, 2, 1>>,
      <<1162, 1214, 2, 1>>, <<1216, 1216, 1, 15>>, <<1217, 1229, 2, 1>>,
      <<1232, 1326, 2, 1>>, <<1329, 1366, 1, 48>>, <<4256, 4293, 1, 7264>>,
      <<4295, 4295, 1, 7264>>, <<4301, 4301, 1, 7264>>,
      <<5024, 5103, 1, 38864>>, <<5104, 5109, 1, 8>>,
      <<7312, 7354, 1, -3008>>, <<7357, 7359, 1, -3008>>,
      <<7680, 7828, 2, 1>>, <<7838, 7838, 1, -7615>>, <<7840, 7934, 2, 1>>,
      <<7944, 7951, 1, -8>>, <<7960, 7965, 1, -8>>, <<7976, 7983, 1, -8>>,
      <<7992, 7999, 1, -8>>, <<8008, 8013, 1, -8>>, <<8025, 8031, 2, -8>>,
      <<8040, 8047, 1, -8>>, <<8072, 8079, 1, -8>>, <<8088, 8095, 1, -8>>,
      <<8104, 8111, 1, -8>>, <<8120, 8121, 1, -8>>, <<8122, 8123, 1, -74>>,
      <<8124, 8124, 1, -9>>, <<8136, 8139, 1, -86>>, <<8140, 8140, 1, -9>>,
      <<8152, 8153, 1, -8>>, <<8154, 8155, 1, -100>>, <<8168, 8169, 1, -8>>,
      <<8170, 8171, 1, -112>>, <<8172, 8172, 1, -7>>, <<8184, 8185, 1, -128>>,
      <<8186, 8187, 1, -126>>, <<8188, 8188, 1, -9>>,
      <<8486, 8486, 1, -7517>>, <<8490, 8490, 1, -8383>>,
      <<8491, 8491, 1, -8262>>, <<8498, 8498, 1, 28>>, <<8544, 8559, 1, 16>>,
      <<8579, 8579, 1, 1>>, <<9398, 9423, 1, 26>>, <<11264, 11311, 1, 48>>,
      <<11360, 11360, 1, 1>>, <<11362, 11362, 1, -10743>>,
      <<11363, 11363, 1, -3814>>, <<11364, 11364, 1, -10727>>,
      <<11367, 11371, 2, 1>>, <<11373, 11373, 1, -10780>>,
      <<11374, 11374, 1, -10749>>, <<11375, 11375, 1, -10783>>,
      <<11376, 11376, 1, -10782>>, <<11378, 11378, 1, 1>>,
      <<11381, 11381, 1, 1>>, <<11390, 11391, 1, -10815>>,
      <<11392, 11490, 2, 1>>, <<11499, 11501, 2, 1>>, <<11506, 11506, 1, 1>>,
      <<42560, 42604, 2, 1>>, <<42624, 42650, 2, 1>>, <<42786, 42798, 2, 1>>,
      <<42802, 42862, 2, 1>>, <<42873, 42875, 2, 1>>,
      <<42877, 42877, 1, -35332>>, <<42878, 42886, 2, 1>>,
      <<42891, 42891, 1, 1>>, <<42893, 42893, 1, -42280>>,
      <<42896, 42898, 2, 1>>, <<42902, 42920, 2, 1>>,
      <<42922, 42922, 1, -42308>>, <<42923, 42923, 1, -42319>>,
      <<42924, 42924, 1, -42315>>, <<42925, 42925, 1, -42305>>,
      <<42926, 42926, 1, -42308>>, <<42928, 42928, 1, -42258>>,
      <<42929, 42929, 1, -42282>>, <<42930, 42930, 1, -42261>>,
      <<42931, 42931, 1, 928>>, <<42932, 42946, 2, 1>>,
      <<42948, 42948, 1, -48>>, <<42949, 42949, 1, -42307>>,
      <<42950, 42950, 1, -35384>>, <<42951, 42953, 2, 1>>,
      <<42960, 42960, 1, 1>>, <<42966, 42968, 2, 1>>, <<42997, 42997, 1, 1>>,
      <<65313, 65338, 1, 32>>, <<66560, 66599, 1, 40>>,
      <<66736, 66771, 1, 40>>, <<66928, 66938, 1, 39>>,
      <<66940, 66954, 1, 39>>, <<66956, 66962, 1, 39>>,
      <<66964, 66965, 1, 39>>, <<68736, 68786, 1, 64>>,
      <<71840, 71871, 1, 32>>, <<93760, 93791, 1, 32>>,
      <<125184, 125217, 1, 34>> >>

\* The ranges of the cased characters that are not case-ignorable
CASED ==
    << <<65, 90>>, <<97, 122>>, <<170, 170>>, <<181, 181>>, <<186, 186>>,
      <<192, 214>>, <<216, 246>>, <<248, 442>>, <<444, 447>>, <<452, 659>>,
      <<661, 687>>, <<880, 883>>, <<886, 887>>, <<891, 893>>, <<895, 895>>,
      <<902, 902>>, <<904, 906>>, <<908, 908>>, <<910, 929>>, <<931, 1013>>,
      <<1015, 1153>>, <<1162, 1327>>, <<1329, 1366>>, <<1376, 1416>>,
      <<4256, 4293>>, <<4295, 4295>>, <<4301, 4301>>, <<4304, 4346>>,
      <<4349, 4351>>, <<5024, 5109>>, <<5112, 5117>>, <<7296, 7304>>,
      <<7312, 7354>>, <<7357, 7359>>, <<7424, 7467>>, <<7531, 7543>>,
      <<7545, 7578>>, <<7680, 7957>>, <<7960, 7965>>, <<7968, 8005>>,
      <<8008, 8013>>, <<8016, 8023>>, <<8025, 8025>>, <<8027, 8027>>,
      <<8029, 8029>>, <<8031, 8061>>, <<8064, 8116>>, <<8118, 8124>>,
      <<8126, 8126>>, <<8130, 8132>>, <<8134, 8140>>, <<8144, 8147>>,
      <<8150, 8155>>, <<8160, 8172>>, <<8178, 8180>>, <<8182, 8188>>,
      <<8450, 8450>>, <<8455, 8455>>, <<8458, 8467>>, <<8469, 8469>>,
      <<8473, 8477>>, <<8484, 8484>>, <<8486, 8486>>, <<8488, 8488>>,
      <<8490, 8493>>, <<8495, 8500>>, <<8505, 8505>>, <<8508, 8511>>,
      <<8517, 8521>>, <<8526, 8526>>, <<8544, 8575>>, <<8579, 8580>>,
      <<9398, 9449>>, <<11264, 11387>>, <<11390, 11492>>, <<11499, 11502>>,
      <<11506, 11507>>, <<11520, 11557>>, <<11559, 11559>>, <<11565, 11565>>,
      <<42560, 42605>>, <<42624, 42651>>, <<42786, 42863>>, <<42865, 42887>>,
      <<42891, 42894>>, <<42896, 42954>>, <<42960, 42961>>, <<42963, 42963>>,
      <<42965, 42969>>, <<42997, 42998>>, <<43002, 43002>>, <<43824, 43866>>,
      <<43872, 43880>>, <<43888, 43967>>, <<64256, 64262>>, <<64275, 64279>>,
      <<65313, 65338>>, <<65345, 65370>>, <<66560, 66639>>, <<66736, 66771>>,
      <<66776, 66811>>, <<66928, 66938>>, <<66940, 66954>>, <<66956, 66962>>,
      <<66964, 66965>>, <<66967, 66977>>, <<66979, 66993>>, <<66995, 67001>>,
      <<67003, 67004>>, <<68736, 68786>>, <<68800, 68850>>, <<71840, 71903>>,
      <<93760, 93823>>, <<119808, 119892>>, <<119894, 119964>>,
      <<119966, 119967>>, <<119970, 119970>>, <<119973, 119974>>,
      <<119977, 119980>>, <<119982, 119993>>, <<119995, 119995>>,
      <<119997, 120003>>, <<120005, 120069>>, <<120071, 120074>>,
      <<120077, 120084>>, <<120086, 120092>>, <<120094, 120121>>,
      <<120123, 120126>>, <<120128, 120132>>, <<120134, 120134>>,
      <<120138, 120144>>, <<120146, 120485>>, <<120488, 120512>>,
      <<120514, 120538>>, <<120540, 120570>>, <<120572, 120596>>,
      <<120598, 120628>>, <<120630, 120654>>, <<120656, 120686>>,
      <<120688, 120712>>, <<120714, 120744>>, <<120746, 120770>>,
      <<120772, 120779>>, <<122624, 122633>>, <<122635, 122654>>,
      <<125184, 125251>>, <<127280, 127305>>, <<127312, 127337>>,
      <<127344, 127369>> >>

\* The ranges of the case-ignorable characters
CASE_IGNORABLE ==
    << <<39, 39>>, <<46, 46>>, <<58, 58>>, <<94, 94>>, <<96, 96>>,
      <<168, 168>>, <<173, 173>>, <<175, 175>>, <<180, 180>>, <<183, 184>>,
      <<688, 879>>, <<884, 885>>, <<890, 890>>, <<900, 901>>, <<903, 903>>,
      <<1155, 1161>>, <<1369, 1369>>, <<1375, 1375>>, <<1425, 1469>>,
      <<1471, 1471>>, <<1473, 1474>>, <<1476, 1477>>, <<1479, 1479>>,
      <<1524, 1524>>, <<1536, 1541>>, <<1552, 1562>>, <<1564, 1564>>,
      <<1600, 1600>>, <<1611, 1631>>, <<1648, 1648>>, <<1750, 1757>>,
      <<1759, 1768>>, <<1770, 1773>>, <<1807, 1807>>, <<1809, 1809>>,
      <<1840, 1866>>, <<1958, 1968>>, <<2027, 2037>>, <<2042, 2042>>,
      <<2045, 2045>>, <<2070, 2093>>, <<2137, 2139>>, <<2184, 2184>>,
      <<2192, 2193>>, <<2200, 2207>>, <<2249, 2306>>, <<2362, 2362>>,
      <<2364, 2364>>, <<2369, 2376>>, <<2381, 2381>>, <<2385, 2391>>,
      <<2402, 2403>>, <<2417, 2417>>, <<2433, 2433>>, <<2492, 2492>>,
      <<2497, 2500>>, <<2509, 2509>>, <<2530, 2531>>, <<2558, 2558>>,
      <<2561, 2562>>, <<2620, 2620>>, <<2625, 2626>>, <<2631, 2632>>,
      <<2635, 2637>>, <<2641, 2641>>, <<2672, 2673>>, <<2677, 2677>>,
      <<2689, 2690>>, <<2748, 2748>>, <<2753, 2757>>, <<2759, 2760>>,
      <<2765, 2765>>, <<2786, 2787>>, <<2810, 2815>>, <<2817, 2817>>,
      <<2876, 2876>>, <<2879, 2879>>, <<2881, 2884>>, <<2893, 2893>>,
      <<2901, 2902>>, <<2914, 2915>>, <<2946, 2946>>, <<3008, 3008>>,
      <<3021, 3021>>, <<3072, 3072>>, <<3076, 3076>>, <<3132, 3132>>,
      <<3134, 3136>>, <<3142, 3144>>, <<3146, 3149>>, <<3157, 3158>>,
      <<3170, 3171>>, <<3201, 3201>>, <<3260, 3260>>, <<3263, 3263>>,
      <<3270, 3270>>, <<3276, 3277>>, <<3298, 3299>>, <<3328, 3329>>,
      <<3387, 3388>>, <<3393, 3396>>, <<3405, 3405>>, <<3426, 3427>>,
      <<3457, 3457>>, <<3530, 3530>>, <<3538, 3540>>, <<3542, 3542>>,
      <<3633, 3633>>, <<3636, 3642>>, <<3654, 3662>>, <<3761, 3761>>,
      <<3764, 3772>>, <<3782, 3782>>, <<3784, 3789>>, <<3864, 3865>>,
      <<3893, 3893>>, <<3895, 3895>>, <<3897, 3897>>, <<3953, 3966>>,
      <<3968, 3972>>, <<3974, 3975>>, <<3981, 3991>>, <<3993, 4028>>,
      <<4038, 4038>>, <<4141, 4144>>, <<4146, 4151>>, <<4153, 4154>>,
      <<4157, 4158>>, <<4184, 4185>>, <<4190, 4192>>, <<4209, 4212>>,
      <<4226, 4226>>, <<4229, 4230>>, <<4237, 4237>>, <<4253, 4253>>,
      <<4348, 4348>>, <<4957, 4959>>, <<5906, 5908>>, <<5938, 5939>>,
      <<5970, 5971>>, <<6002, 6003>>, <<6068, 6069>>, <<6071, 6077>>,
      <<6086, 6086>>, <<6089, 6099>>, <<6103, 6103>>, <<6109, 6109>>,
      <<6155, 6159>>, <<6211, 6211>>, <<6277, 6278>>, <<6313, 6313>>,
      <<6432, 6434>>, <<6439, 6440>>, <<6450, 6450>>, <<6457, 6459>>,
      <<6679, 6680>>, <<6683, 6683>>, <<6742, 6742>>, <<6744, 6750>>,
      <<6752, 6752>>, <<6754, 6754>>, <<6757, 6764>>, <<6771, 6780>>,
      <<6783, 6783>>, <<6823, 6823>>, <<6832, 6862>>, <<6912, 6915>>,
      <<6964, 6964>>, <<6966, 6970>>, <<6972, 6972>>, <<6978, 6978>>,
      <<7019, 7027>>, <<7040, 7041>>, <<7074, 7077>>, <<7080, 7081>>,
      <<7083, 7085>>, <<7142, 7142>>, <<7144, 7145>>, <<7149, 7149>>,
      <<7151, 7153>>, <<7212, 7219>>, <<7222, 7223>>, <<7288, 7293>>,
      <<7376, 7378>>, <<7380, 7392>>, <<7394, 7400>>, <<7405, 7405>>,
      <<7412, 7412>>, <<7416, 7417>>, <<7468, 7530>>, <<7544, 7544>>,
      <<7579, 7679>>, <<8125, 8125>>, <<8127, 8129>>, <<8141, 8143>>,
      <<8157, 8159>>, <<8173, 8175>>, <<8189, 8190>>, <<8203, 8207>>,
      <<8216, 8217>>, <<8228, 8228>>, <<8231, 8231>>, <<8234, 8238>>,
      <<8288, 8292>>, <<8294, 8303>>, <<8305, 8305>>, <<8319, 8319>>,
      <<8336, 8348>>, <<8400, 8432>>, <<11388, 11389>>, <<11503, 11505>>,
      <<11631, 11631>>, <<11647, 11647>>, <<11744, 11775>>, <<11823, 11823>>,
      <<12293, 12293>>, <<12330, 12333>>, <<12337, 12341>>, <<12347, 12347>>,
      <<12441, 12446>>, <<12540, 12542>>, <<40981, 40981>>, <<42232, 42237>>,
      <<42508, 42508>>, <<42607, 42610>>, <<42612, 42621>>, <<42623, 42623>>,
      <<42652, 42655>>, <<42736, 42737>>, <<42752, 42785>>, <<42864, 42864>>,
      <<42888, 42890>>, <<42994, 42996>>, <<43000, 43001>>, <<43010, 43010>>,
      <<43014, 43014>>, <<43019, 43019>>, <<43045, 43046>>, <<43052, 43052>>,
      <<43204, 43205>>, <<43232, 43249>>, <<43263, 43263>>, <<43302, 43309>>,
      <<43335, 43345>>, <<43392, 43394>>, <<43443, 43443>>, <<43446, 43449>>,
      <<43452, 43453>>, <<43471, 43471>>, <<43493, 43494>>, <<43561, 43566>>,
      <<43569, 43570>>, <<43573, 43574>>, <<43587, 43587>>, <<43596, 43596>>,
      <<43632, 43632>>, <<43644, 43644>>, <<43696, 43696>>, <<43698, 43700>>,
      <<43703, 43704>>, <<43710, 43711>>, <<43713, 43713>>, <<43741, 43741>>,
      <<43756, 43757>>, <<43763, 43764>>, <<43766, 43766>>, <<43867, 43871>>,
      <<43881, 43883>>, <<44005, 44005>>, <<44008, 44008>>, <<44013, 44013>>,
      <<64286, 64286>>, <<64434, 64450>>, <<65024, 65039>>, <<65043, 65043>>,
      <<65056, 65071>>, <<65106, 65106>>, <<65109, 65109>>, <<65279, 65279>>,
      <<65287, 65287>>, <<65294, 65294>>, <<65306, 65306>>, <<65342, 65342>>,
      <<65344, 65344>>, <<65392, 65392>>, <<65438, 65439>>, <<65507, 65507>>,
      <<65529, 65531>>, <<66045, 66045>>, <<66272, 66272>>, <<66422, 66426>>,
      <<67456, 67461>>, <<67463, 67504>>, <<67506, 67514>>, <<68097, 68099>>,
      <<68101, 68102>>, <<68108, 68111>>, <<68152, 68154>>, <<68159, 68159>>,
      <<68325, 68326>>, <<68900, 68903>>, <<69291, 69292>>, <<69446, 69456>>,
      <<69506, 69509>>, <<69633, 69633>>, <<69688, 69702>>, <<69744, 69744>>,
      <<69747, 69748>>, <<69759, 69761>>, <<69811, 69814>>, <<69817, 69818>>,
      <<69821, 69821>>, <<69826, 69826>>, <<69837, 69837>>, <<69888, 69890>>,
      <<69927, 69931>>, <<69933, 69940>>, <<70003, 70003>>, <<70016, 70017>>,
      <<70070, 70078>>, <<70089, 70092>>, <<70095, 70095>>, <<70191, 70193>>,
      <<70196, 70196>>, <<70198, 70199>>, <<70206, 70206>>, <<70367, 70367>>,
      <<70371, 70378>>, <<70400, 70401>>, <<70459, 70460>>, <<70464, 70464>>,
      <<70502, 70508>>, <<70512, 70516>>, <<70712, 70719>>, <<70722, 70724>>,
      <<70726, 70726>>, <<70750, 70750>>, <<70835, 70840>>, <<70842, 70842>>,
      <<70847, 70848>>, <<70850, 70851>>, <<71090, 71093>>, <<71100, 71101>>,
      <<71103, 71104>>, <<71132, 71133>>, <<71219, 71226>>, <<71229, 71229>>,
      <<71231, 71232>>, <<71339, 71339>>, <<71341, 71341>>, <<71344, 71349>>,
      <<71351, 71351>>, <<71453, 71455>>, <<71458, 71461>>, <<71463, 71467>>,
      <<71727, 71735>>, <<71737, 71738>>, <<71995, 71996>>, <<71998, 71998>>,
      <<72003, 72003>>, <<72148, 72151>>, <<72154, 72155>>, <<72160, 72160>>,
      <<72193, 72202>>, <<72243, 72248>>, <<72251, 72254>>, <<72263, 72263>>,
      <<72273, 72278>>, <<72281, 72283>>, <<72330, 72342>>, <<72344, 72345>>,
      <<72752, 72758>>, <<72760, 72765>>, <<72767, 72767>>, <<72850, 72871>>,
      <<72874, 72880>>, <<72882, 72883>>, <<72885, 72886>>, <<73009, 73014>>,
      <<73018, 73018>>, <<73020, 73021>>, <<73023, 73029>>, <<73031, 73031>>,
      <<73104, 73105>>, <<73109, 73109>>, <<73111, 73111>>, <<73459, 73460>>,
      <<78896, 78904>>, <<92912, 92916>>, <<92976, 92982>>, <<92992, 92995>>,
      <<94031, 94031>>, <<94095, 94111>>, <<94176, 94177>>, <<94179, 94180>>,
      <<110576, 110579>>, <<110581, 110587>>, <<110589, 110590>>,
      <<113821, 113822>>, <<113824, 113827>>, <<118528, 118573>>,
      <<118576, 118598>>, <<119143, 119145>>, <<119155, 119170>>,
      <<119173, 119179>>, <<119210, 119213>>, <<119362, 119364>>,
      <<121344, 121398>>, <<121403, 121452>>, <<121461, 121461>>,
      <<121476, 121476>>, <<121499, 121503>>, <<121505, 121519>>,
      <<122880, 122886>>, <<122888, 122904>>, <<122907, 122913>>,
      <<122915, 122916>>, <<122918, 122922>>, <<123184, 123197>>,
      <<123566, 123566>>, <<123628, 123631>>, <<125136, 125142>>,
      <<125252, 125259>>, <<127995, 127999>>, <<917505, 917505>>,
      <<917536, 917631>>, <<917760, 917999>> >>

\* n is in one of the ranges <<first, last>> of the table
InRanges(n, table) == \E k \in 1..Len(table) : table[k][1] <= n /\ n <= table[k][2]

\* The character is cased and not case-ignorable
IsCased(c) == InRanges(Ord(c), CASED)

\* The character is case-ignorable
IsCaseIgnorable(c) == InRanges(Ord(c), CASE_IGNORABLE)

\* The capital sigma at index i of s is a final one: the nearest character
\* before it that is not case-ignorable is cased, and the nearest such
\* character after it, if any, is not.
final_sigma(s, i) ==
    /\ \E j \in 1..(i - 1) :
          /\ IsCased(s[j])
          /\ \A k \in (j + 1)..(i - 1) : IsCaseIgnorable(s[k])
    /\ ~\E j \in (i + 1)..Len(s) :
          /\ IsCased(s[j])
          /\ \A k \in (i + 1)..(j - 1) : IsCaseIgnorable(s[k])

\* The code point str.lower gives for code point n, for the characters it
\* maps to one character whatever stands around them
to_lower(n) ==
    IF \E k \in 1..Len(LOWERCASE) :
          /\ LOWERCASE[k][1] <= n /\ n <= LOWERCASE[k][2]
          /\ (n - LOWERCASE[k][1]) % LOWERCASE[k][3] = 0
    THEN n + LOWERCASE[CHOOSE k \in 1..Len(LOWERCASE) :
                          /\ LOWERCASE[k][1] <= n /\ n <= LOWERCASE[k][2]
                          /\ (n - LOWERCASE[k][1]) % LOWERCASE[k][3] = 0][4]
    ELSE n

\* What str.lower makes of the character at index i of s: U+0130 becomes
\* two characters, the capital sigma U+03A3 becomes the final sigma U+03C2
\* or the sigma U+03C3.  A character written as itself has a code below 128.
lowered(s, i) ==
    IF Len(s[i]) = 1
    THEN (IF Ord(s[i]) \in 65..90 THEN <<Chr(Ord(s[i]) + 32)>> ELSE <<s[i]>>)
    ELSE IF Ord(s[i]) = 304 THEN <<"i", Chr(775)>>
    ELSE IF Ord(s[i]) = 931
    THEN (IF final_sigma(s, i) THEN <<Chr(962)>> ELSE <<Chr(963)>>)
    ELSE <<Chr(to_lower(Ord(s[i])))>>

\* str.lower()
lower(s) == Concat([i \in 1..Len(s) |-> lowered(s, i)], 1, Len(s))

\* str.endswith(suffix)
EndsWith(s, suffix) ==
    Len(s) >= Len(suffix) /\ Slice(s, Len(s) - Len(suffix), Len(s)) = suffix

\* s up to the first of the characters stop, all of s when it has none
Before(s, stop) ==
    IF \E i \in 1..Len(s) : s[i] \in stop
    THEN Slice(s, 0, (CHOOSE i \in 1..Len(s) :
                         s[i] \in stop /\ \A j \in 1..(i - 1) : s[j] \notin stop) - 1)
    ELSE s

\* The characters urlsplit strips from the left of a URL: the C0 control
\* characters and the space
IsC0ControlOrSpace(c) ==
    IF Len(c) = 1 THEN c \in {" ", "\t", "\n", "\f", "\r"} ELSE Ord(c) < 32

\* urlsplit: url.lstrip(_WHATWG_C0_CONTROL_OR_SPACE), then tab, CR and LF
\* are removed wherever they stand
url_cleaned(url) ==
    LET kept == {i \in 1..Len(url) : ~IsC0ControlOrSpace(url[i])}
        IsSafe(c) == c \notin {"\t", "\r", "\n"}
    IN  IF kept = {} THEN <<>>
        ELSE SelectSeq(SubSeq(url, CHOOSE i \in kept : \A j \in kept : i <= j,
                              Len(url)),
                       IsSafe)

\* The ASCII letters
AsciiLetters ==
    { ASCII[i] : i \in (Ord("A") - 31)..(Ord("Z") - 31) }
      \cup { ASCII[i] : i \in (Ord("a") - 31)..(Ord("z") - 31) }

\* urllib.parse.scheme_chars
scheme_chars ==
    AsciiLetters \cup { ASCII[i] : i \in (Ord("0") - 31)..(Ord("9") - 31) }
      \cup {"+", "-", "."}

\* urllib.parse.uses_params
uses_params ==
    { <<>>, <<"f", "t", "p">>, <<"h", "d", "l">>,
      <<"p", "r", "o", "s", "p", "e", "r", "o">>, <<"h", "t", "t", "p">>,
      <<"i", "m", "a", "p">>, <<"h", "t", "t", "p", "s">>,
      <<"s", "h", "t", "t", "p">>, <<"r", "t", "s", "p">>,
      <<"r", "t", "s", "p", "s">>, <<"r", "t", "s", "p", "u">>,
      <<"s", "i", "p">>, <<"s", "i", "p", "s">>, <<"m", "m", "s">>,
      <<"s", "f", "t", "p">>, <<"t", "e", "l">> }

\* urlsplit: the URL starts with a scheme, letters, digits and "+-." up to
\* its first colon, the first of them a letter
has_scheme(url) ==
    /\ Find(url, ":") > 0
    /\ url[1] \in AsciiLetters
    /\ \A k \in 1..Find(url, ":") : url[k] \in scheme_chars

\* urlsplit: the scheme, in lower case, "" without one
url_scheme(url) ==
    IF has_scheme(url) THEN lower(Slice(url, 0, Find(url, ":"))) ELSE <<>>

\* urlsplit: the URL after its scheme
after_scheme(url) ==
    IF has_scheme(url) THEN Slice(url, Find(url, ":") + 1, Len(url)) ELSE url

\* _splitnetloc(url, 2): the index of the first of "/", "?" and "#" after
\* the two slashes, one past the end without any
netloc_end(url) ==
    IF \E i \in 3..Len(url) : url[i] \in {"/", "?", "#"}
    THEN CHOOSE i \in 3..Len(url) :
            /\ url[i] \in {"/", "?", "#"}
            /\ \A j \in 3..(i - 1) : url[j] \notin {"/", "?", "#"}
    ELSE Len(url) + 1

\* urlsplit: the network location of a URL that goes on with two slashes
url_netloc(url) ==
    IF Slice(url, 0, 2) = <<"/", "/">> THEN SubSeq(url, 3, netloc_end(url) - 1)
    ELSE <<>>

\* urlsplit: the URL after its network location
after_netloc(url) ==
    IF Slice(url, 0, 2) = <<"/", "/">> THEN SubSeq(url, netloc_end(url), Len(url))
    ELSE url

\* ipaddress._BaseV4._parse_octet raises nothing: one to three ASCII
\* digits without a leading zero, at most 255
octet_ok(octet) ==
    /\ Len(octet) \in 1..3
    /\ \A i \in 1..Len(octet) : Len(octet[i]) = 1 /\ Ord(octet[i]) \in 48..57
    /\ Len(octet) > 1 => octet[1] # "0"
    /\ Len(octet) = 3 =>
          100 * HexVal(octet[1]) + 10 * HexVal(octet[2]) + HexVal(octet[3]) <= 255

\* ipaddress.IPv4Address(s) raises nothing
ipv4_ok(s) ==
    /\ Len(Split(s, ".")) = 4
    /\ \A i \in 1..4 : octet_ok(Split(s, ".")[i])

\* ipaddress._BaseV6._parse_hextet raises nothing
hextet_ok(hextet) ==
    /\ Len(hextet) \in 1..4
    /\ \A i \in 1..Len(hextet) : IsHex(hextet[i])

\* ipaddress._BaseV6._ip_int_from_string raises nothing on the parts between
\* the colons, an IPv4 suffix being replaced by its two hextets: at most
\* nine parts; without an empty part between the first and the last there
\* are eight hextets; with one, the "::", an empty first or last part is
\* part of it, and at most seven hextets stand around it.
ipv6_parts_ok(parts) ==
    LET skips == {i \in 2..(Len(parts) - 1) : parts[i] = <<>>}
        skip == CHOOSE i \in skips : TRUE
        parts_hi == IF parts[1] = <<>> THEN skip - 2 ELSE skip - 1
        parts_lo == IF parts[Len(parts)] = <<>> THEN Len(parts) - skip - 1
                    ELSE Len(parts) - skip
    IN  /\ Len(parts) <= 9
        /\ Cardinality(skips) <= 1
        /\ skips = {} => Len(parts) = 8 /\ \A i \in 1..8 : parts[i] # <<>>
        /\ skips # {} =>
              /\ parts[1] = <<>> => parts_hi = 0
              /\ parts[Len(parts)] = <<>> => parts_lo = 0
              /\ parts_hi + parts_lo <= 7
        /\ \A i \in 1..Len(parts) : parts[i] # <<>> => hextet_ok(parts[i])

\* ipaddress.IPv6Address(s) raises nothing: a scope id after "%" is not
\* empty and holds no "%"; the address has at least three parts, and a last
\* part with a dot is an IPv4 address.
ipv6_ok(s) ==
    LET addr == Before(s, {"%"})
        parts == Split(addr, ":")
        last == parts[Len(parts)]
    IN  /\ HasChar(s, "%") =>
              /\ Find(s, "%") + 1 < Len(s)
              /\ ~HasChar(Slice(s, Find(s, "%") + 1, Len(s)), "%")
        /\ Len(parts) >= 3
        /\ IF HasChar(last, ".")
           THEN /\ ipv4_ok(last)
                /\ ipv6_parts_ok(SubSeq(parts, 1, Len(parts) - 1)
                                    \o <<<<"0">>, <<"0">>>>)
           ELSE ipv6_parts_ok(parts)

\* _check_bracketed_host raises nothing: a host that starts with "v" is "v",
\* hex digits, a dot and at least one more character; any other host is an
\* IPv6 address.
bracketed_host_ok(hostname) ==
    IF hostname # <<>> /\ hostname[1] = "v"
    THEN \E k \in 3..(Len(hostname) - 1) :
            /\ hostname[k] = "."
            /\ \A j \in 2..(k - 1) : IsHex(hostname[j])
    ELSE ipv6_ok(hostname)

\* The characters whose NFKC form holds one of "/", "?", "#", "@", ":"
NFKC_DELIMITERS ==
    { Chr(n) : n \in {8263, 8264, 8265, 8448, 8449, 8453, 8454, 10868, 65043,
                      65046, 65109, 65110, 65119, 65131, 65283, 65295, 65306,
                      65311, 65312} }

\* The ValueError of urlsplit for the network location: a bracket without
\* its partner, a bracketed host that _check_bracketed_host refuses (the
\* host is what stands after the first "[", up to the first "]" in it), and
\* a character that _checknetloc refuses.
netloc_error(netloc) ==
    IF HasChar(netloc, "[") # HasChar(netloc, "]") THEN "ValueError"
    ELSE IF /\ HasChar(netloc, "[")
            /\ ~bracketed_host_ok(
                   Before(Slice(netloc, Find(netloc, "[") + 1, Len(netloc)), {"]"}))
    THEN "ValueError"
    ELSE IF \E i \in 1..Len(netloc) : netloc[i] \in NFKC_DELIMITERS
    THEN "ValueError"
    ELSE ""

\* _splitparams(url).  The part before the parameters: with a slash the
\* parameters start at the first ";" after the last slash, without one at
\* the first ";".
splitparams(url) ==
    IF \E i \in (RFind(url, "/") + 2)..Len(url) : url[i] = ";"
    THEN Slice(url, 0, (CHOOSE i \in (RFind(url, "/") + 2)..Len(url) :
                           /\ url[i] = ";"
                           /\ \A j \in (RFind(url, "/") + 2)..(i - 1) : url[j] # ";") - 1)
    ELSE url

\* urlparse once the URL is clean and its scheme is known: the path is what
\* stands after the network location, up to the first "?" or "#", without
\* its parameters when the scheme takes parameters.
path_of(url, scheme) ==
    IF netloc_error(url_netloc(url)) # "" THEN Raise(netloc_error(url_netloc(url)))
    ELSE IF scheme \in uses_params
    THEN Return(splitparams(Before(after_netloc(url), {"?", "#"})))
    ELSE Return(Before(after_netloc(url), {"?", "#"}))

\* urlparse(download_url).path (line 318), or the ValueError of urlparse
url_path(url) ==
    path_of(after_scheme(url_cleaned(url)), url_scheme(url_cleaned(url)))

skip_types == { <<".", "j", "p", "g">>, <<".", "j", "p", "e", "g">>,
                <<".", "p", "n", "g">>, <<".", "g", "i", "f">>,
                <<".", "m", "p", "4">>, <<".", "m", "o", "v">> }

\* any(path.endswith(extension) for extension in skip_types)
ends_with_skip_type(path) == \E extension \in skip_types : EndsWith(path, extension)

\* Line 320 without lower()
is_skipped_case_sensitive(url) ==
    url_path(url).exc = "" /\ ends_with_skip_type(url_path(url).val)

\* Lines 317-321: the attachment is passed over
is_skipped(url) ==
    url_path(url).exc = "" /\ ends_with_skip_type(lower(url_path(url).val))

-----------------------------------------------------------------------------
(* utils.write_html_2_file, create_html_attachment_index, process_attachments *)

\* None where a dict is expected
NoDict == [none |-> TRUE]

\* bool(d) of a dict or None
Truthy(d) == "none" \notin DOMAIN d /\ DOMAIN d # {}

\* A request for JSON sent to the remote service.
Get(what, id, status) == [ev |-> "get", what |-> what, id |-> id, status |-> status]

\* Line 89, for the value the parameter is bound to: the fifth positional
\* argument, a str that join takes character by character, when there is
\* one; else the list passed by keyword.  positional holds the positional
\* arguments after html_template; keyword holds the additional_headers
\* keyword argument when the call passes one.
additional_html_headers(positional, keyword) ==
    IF Len(positional) = 1
    THEN Join([i \in 1..Len(positional[1]) |-> <<positional[1][i]>>], <<"\n", "\t">>)
    ELSE IF Len(keyword) = 1 THEN Join(keyword[1], <<"\n", "\t">>)
    ELSE <<>>

\* A link or an image of a page body holds a surrogate in an attribute
element_has_surrogate(e) ==
    HasSurrogate(e.href) \/ HasSurrogate(e.src) \/ HasSurrogate(e.alt)

\* The content of a file holds a surrogate.  The content is a str, or the
\* parts a caller builds the str from: the body and the attachment list of
\* a page, or the link and the title of a forwarding file.
content_has_surrogate(content) ==
    IF SubSeq(ToString(content), 1, 2) = "<<" THEN HasSurrogate(content)
    ELSE IF "forward_to" \in DOMAIN content
    THEN HasSurrogate(content.forward_to) \/ HasSurrogate(content.page_title)
    ELSE \/ \E i \in 1..Len(content.body) : element_has_surrogate(content.body[i])
         \/ \E i \in 1..Len(content.attachments) :
                HasSurrogate(content.attachments[i].text)

\* The characters the pattern \s matches
WhiteSpace ==
    {" ", "\t", "\n", "\f", "\r"}
      \cup { Chr(n) : n \in {11, 28, 29, 30, 31, 133, 160, 5760, 8232, 8233,
                             8239, 8287, 12288} \cup 8192..8202 }

\* The character matches the letter of a placeholder's name under
\* re.IGNORECASE: the letter, its capital, and for "i" and "s" the characters
\* U+0130, U+0131 and U+017F, which have the same case folding.
same_letter(c, letter) ==
    \/ c = letter
    \/ Len(c) = 1 /\ Ord(c) \in 65..90 /\ Ord(c) + 32 = Ord(letter)
    \/ letter = "i" /\ c \in {Chr(304), Chr(305)}
    \/ letter = "s" /\ c = Chr(383)

\* The number of characters \s* takes from index i of s on
spaces_from(s, i) ==
    IF i > Len(s) \/ s[i] \notin WhiteSpace THEN 0
    ELSE CHOOSE n \in 1..(Len(s) - i + 1) :
            /\ \A k \in 0..(n - 1) : s[i + k] \in WhiteSpace
            /\ (i + n > Len(s) \/ s[i + n] \notin WhiteSpace)

\* The placeholder's name stands at index i of s, then \s*%\}: the index of
\* the closing brace, 0 when it does not
name_end(s, i, placeholder) ==
    IF \/ i + Len(placeholder) - 1 > Len(s)
       \/ \E k \in 1..Len(placeholder) : ~same_letter(s[i + k - 1], placeholder[k])
    THEN 0
    ELSE IF /\ i + Len(placeholder) + spaces_from(s, i + Len(placeholder)) + 1 <= Len(s)
            /\ s[i + Len(placeholder) + spaces_from(s, i + Len(placeholder))] = "%"
            /\ s[i + Len(placeholder) + spaces_from(s, i + Len(placeholder)) + 1] = "}"
    THEN i + Len(placeholder) + spaces_from(s, i + Len(placeholder)) + 1
    ELSE 0

\* A match of the pattern {%\s*placeholder\s*%\} (utils.py line 96) starts
\* at index i of s: the index of its last character, 0 when none starts there
placeholder_end(s, i, placeholder) ==
    IF i + 1 <= Len(s) /\ s[i] = "{" /\ s[i + 1] = "%"
    THEN name_end(s, i + 2 + spaces_from(s, i + 2), placeholder)
    ELSE 0

\* re.sub(regex_placeholder, replacement, s, flags=re.IGNORECASE) of lines
\* 98-99: every match is replaced by the replacement as it is (its
\* backslashes are doubled for the template syntax of re.sub, which halves
\* them).  No two matches overlap, for a match holds one "{".
replace_placeholder(s, placeholder, replacement) ==
    IF ~HasChar(s, "{") THEN s
    ELSE Concat([i \in 1..Len(s) |->
                   IF placeholder_end(s, i, placeholder) # 0 THEN replacement
                   ELSE IF \E j \in 1..(i - 1) : placeholder_end(s, j, placeholder) >= i
                   THEN <<>>
                   ELSE <<s[i]>>],
                1, Len(s))

S_content == <<"c", "o", "n", "t", "e", "n", "t">>

S_additional_headers ==
    <<"a", "d", "d", "i", "t", "i", "o", "n", "a", "l", "_", "h", "e", "a",
      "d", "e", "r", "s">>

\* The content is a str
IsStr(content) == SubSeq(ToString(content), 1, 2) = "<<"

\* The markup of an attribute the element has
attribute_text(name, value) ==
    IF value = None THEN <<>> ELSE <<" ">> \o name \o <<"=", "\"">> \o value \o <<"\"">>

\* The characters of a word of the markup
Chars(word) == [i \in 1..Len(word) |-> SubSeq(word, i, i)]

\* The markup of the classes an element has
class_text(classes) ==
    IF Len(classes) = 0 THEN None
    ELSE Join([i \in 1..Len(classes) |-> Chars(classes[i])], <<" ">>)

\* The markup of an element of a page body, which str(html_tree) of line
\* 147 gives: the tag with its attributes; an element is closed by its end
\* tag, an image in its start tag.
element_text(e) ==
    <<"<">> \o Chars(e.tag)
      \o attribute_text(<<"h", "r", "e", "f">>, e.href)
      \o attribute_text(<<"s", "r", "c">>, e.src)
      \o attribute_text(<<"a", "l", "t">>, e.alt)
      \o attribute_text(<<"c", "l", "a", "s", "s">>, class_text(e.class))
      \o (IF e.tag = "img" THEN <<"/", ">">>
          ELSE <<">", "<", "/">> \o Chars(e.tag) \o <<">">>)

\* One item of the attachment list (line 304)
attachment_item_text(item) ==
    <<"\t", "<", "l", "i", ">", "<", "a", " ", "h", "r", "e", "f", "=", "\"">>
      \o item.href \o <<"\"", ">">> \o item.text
      \o <<"<", "/", "a", ">", "<", "/", "l", "i", ">", "\n">>

\* The str a caller passes as content: the str itself; of a forwarding file
\* settings.HTML_FORWARD_MESSAGE with the link and the title (line 440); of
\* a page the markup of the body and the attachment list (lines 299-306, 431).
content_text(content) ==
    IF IsStr(content) THEN content
    ELSE IF "forward_to" \in DOMAIN content
    THEN <<"<", "a", " ", "h", "r", "e", "f", "=", "\"">> \o content.forward_to
         \o <<"\"", ">", "I", "f", " ", "y", "o", "u", " ", "a", "r", "e", " ",
              "n", "o", "t", " ", "a", "u", "t", "o", "m", "a", "t", "i", "c",
              "a", "l", "l", "y", " ", "f", "o", "r", "w", "a", "r", "d", "e",
              "d", " ", "t", "o", " ">> \o content.page_title
         \o <<",", " ", "p", "l", "e", "a", "s", "e", " ", "c", "l", "i", "c",
              "k", " ", "h", "e", "r", "e", "!", "<", "/", "a", ">">>
    ELSE Concat([i \in 1..Len(content.body) |-> element_text(content.body[i])],
                1, Len(content.body))
         \o <<"\n", "\n", "<", "h", "2", ">", "A", "t", "t", "a", "c", "h", "m",
              "e", "n", "t", "s", "<", "/", "h", "2", ">">>
         \o (IF Len(content.attachments) = 0 THEN <<>>
             ELSE <<"<", "u", "l", ">", "\n">>
                  \o Concat([i \in 1..Len(content.attachments) |->
                               attachment_item_text(content.attachments[i])],
                            1, Len(content.attachments))
                  \o <<"<", "/", "u", "l", ">", "\n">>)

\* The content in the file: the third replacement (utils.py lines 93-99)
\* goes over the document that holds the content already, so a placeholder
\* of the additional headers in the content is replaced by the headers.
content_filled(content, headers) ==
    IF IsStr(content) THEN replace_placeholder(content, S_additional_headers, headers)
    ELSE IF "forward_to" \in DOMAIN content
    THEN [forward_to |-> replace_placeholder(content.forward_to,
                                             S_additional_headers, headers),
          page_title |-> replace_placeholder(content.page_title,
                                             S_additional_headers, headers)]
    ELSE [body |-> [i \in 1..Len(content.body) |->
                      [content.body[i] EXCEPT
                          !.href = replace_placeholder(@, S_additional_headers, headers),
                          !.src = replace_placeholder(@, S_additional_headers, headers),
                          !.alt = replace_placeholder(@, S_additional_headers, headers)]],
          attachments |-> [i \in 1..Len(content.attachments) |->
                      [content.attachments[i] EXCEPT
                          !.href = replace_placeholder(@, S_additional_headers, headers),
                          !.text = replace_placeholder(@, S_additional_headers, headers)]]]

\* The title in the file: the second and the third replacement go over the
\* document that holds the title already, so a placeholder of the content in
\* the title is replaced by the content, and then one of the additional
\* headers by the headers.
title_filled(title, content, headers) ==
    IF ~HasChar(title, "{") THEN title
    ELSE replace_placeholder(
             replace_placeholder(title, S_content, content_text(content)),
             S_additional_headers, headers)

\* write_html_2_file(path, title, content, html_template, *positional,
\* additional_headers=keyword): binding the parameter twice, or a sixth
\* positional argument, is a TypeError of the call.  The file holds the
\* template with its three placeholders replaced one after the other, title,
\* content, additional_headers (utils.py lines 93-101); write_2_file opens
\* it (line 72) and writes the text as UTF-8 (line 73), which raises
\* UnicodeEncodeError on a surrogate and leaves the file empty.
write_html_2_file(io, path, title, content, positional, keyword) ==
    IF Len(positional) > 1 \/ (Len(positional) = 1 /\ Len(keyword) = 1)
    THEN [exc |-> "TypeError", io |-> io]
    ELSE IF open_error(io, path) # "" THEN [exc |-> open_error(io, path), io |-> io]
    ELSE IF \/ HasSurrogate(title) \/ content_has_surrogate(content)
            \/ HasSurrogate(additional_html_headers(positional, keyword))
    THEN [exc |-> "UnicodeEncodeError", io |-> Stored(io, path, [kind |-> "empty"])]
    ELSE [exc |-> "",
          io |-> Logged(Stored(io, path,
                               [kind |-> "html",
                                title |-> title_filled(title, content,
                                    additional_html_headers(positional, keyword)),
                                content |-> content_filled(content,
                                    additional_html_headers(positional, keyword)),
                                additional_headers |->
                                    additional_html_headers(positional, keyword)]),
                        [ev |-> "write", path |-> path])]

\* "/".join(s.split("/")[2:])
drop_two_folders(s) == Join(Slice(Split(s, "/"), 2, Len(Split(s, "/"))), <<"/">>)

\* Lines 298-306: the heading and one list item per attachment.
create_html_attachment_index(attachments) ==
    IF \E i \in 1..Len(attachments) :
           encode_url(drop_two_folders(attachments[i].file_path)).exc # ""
    THEN Raise("UnicodeEncodeError")
    ELSE Return([i \in 1..Len(attachments) |->
                   [href |-> encode_url(drop_two_folders(attachments[i].file_path)).val,
                    text |-> attachments[i].file_name]])

\* What process_attachments gives: val is its path_collection.  p is what
\* it works on: io, the remote service, the folder, the attachment registry
\* and the list collected so far.
Processed(e, val, p) ==
    [exc |-> e, val |-> val, io |-> p.io,
     duplicate_file_names |-> p.duplicate_file_names,
     file_matching |-> p.file_matching]

RECURSIVE attachments_from(_, _, _)
RECURSIVE attachment_downloaded(_, _, _, _)

\* Lines 323-332 once download_attachment has given r.
attachment_downloaded(p, results, i, r) ==
    IF r.exc # ""
    THEN Processed(r.exc, NoDict,
                   [p EXCEPT !.io = r.io,
                             !.duplicate_file_names = r.duplicate_file_names,
                             !.file_matching = r.file_matching])
    ELSE attachments_from(
             [p EXCEPT !.io = r.io,
                       !.duplicate_file_names = r.duplicate_file_names,
                       !.file_matching = r.file_matching,
                       !.child_attachments = Append(@, r.val)],
             results, i + 1)

\* The loop of lines 313-332 from result i on; attachment["id"][3:] is the
\* id without its first three characters.
attachments_from(p, results, i) ==
    IF i > Len(results)
    THEN Processed("", [child_attachments |-> p.child_attachments], p)
    ELSE IF url_path(results[i].download).exc # ""
    THEN Processed(url_path(results[i].download).exc, NoDict, p)
    ELSE IF is_skipped(results[i].download)
    THEN attachments_from(p, results, i + 1)
    ELSE attachment_downloaded(p, results, i,
             download_attachment(p.io, p.remote, results[i].download,
                                 p.download_folder,
                                 Slice(results[i].id, 3, Len(results[i].id)),
                                 p.duplicate_file_names, p.file_matching))

process_attachments(io, remote, results, download_folder, dups, matching) ==
    attachments_from([io |-> io, remote |-> remote,
                      download_folder |-> download_folder,
                      duplicate_file_names |-> dups, file_matching |-> matching,
                      child_attachments |-> <<>>],
                     results, 1)

-----------------------------------------------------------------------------
(* fetch_page_recursively                                                  *)
(*                                                                         *)
(* A remote holds what the service answers during one space's export: the  *)
(* space (name, homepage, status of its request), its pages by id, and the *)
(* status of each file download.  A page has a title, a body, the result   *)
(* pages of its attachment listing and of its child listing, and the       *)
(* status of each of its three requests.                                   *)

S_web_url ==
    <<"h", "t", "t", "p", "s", ":", "/", "/", "b", "o", "o", "m", "t", "r",
      "a", "i", "n", ".", "a", "t", "l", "a", "s", "s", "i", "a", "n", ".",
      "n", "e", "t", "/", "w", "i", "k", "i", "/", "s", "p", "a", "c", "e",
      "s", "/">>

\* Line 376
web_url(space, page_id) ==
    S_web_url \o space \o <<"/", "p", "a", "g", "e", "s", "/">> \o page_id \o <<"/">>

S_forward_to_page ==
    <<"F", "o", "r", "w", "a", "r", "d", " ", "t", "o", " ", "p", "a", "g",
      "e", " ">>

S_meta_refresh ==
    <<"<", "m", "e", "t", "a", " ", "h", "t", "t", "p", "-", "e", "q", "u",
      "i", "v", "=", "\"", "r", "e", "f", "r", "e", "s", "h", "\"", " ",
      "c", "o", "n", "t", "e", "n", "t", "=", "\"", "0", ";", " ", "u", "r",
      "l", "=">>

\* Status of the request for a page: an id the service does not know is
\* answered 404.
PageStatus(remote, page_id) ==
    IF page_id \in DOMAIN remote.pages THEN remote.pages[page_id].status ELSE "http"

\* What a fetch_page_recursively call works on.  The four registries are
\* its dicts after lines 363-370.
Fetching(io, remote, page_id, folder_path, download_folder, space, pdups, pmatch, adups, amatch) ==
    [io |-> io, remote |-> remote, page_id |-> page_id,
     folder_path |-> folder_path, download_folder |-> download_folder,
     space |-> space,
     page_duplicate_file_names |-> pdups, page_file_matching |-> pmatch,
     attachment_duplicate_file_names |-> adups,
     attachment_file_matching |-> amatch,
     file_name |-> None, path_collection |-> NoDict]

\* History kept in the log: the attachment registry a call works with, at
\* its entry (after lines 363-370) and once the attachment listing has been
\* processed (line 422).
Registry(at, c, matching) ==
    [ev |-> "registry", at |-> at, space |-> c.space, page_id |-> c.page_id,
     attachment_file_matching |-> matching]

\* What a fetch_page_recursively call gives: the exception it lets through
\* ("" for none), the value returned, io, and the page registry it used.
Fetched(e, val, c) ==
    [exc |-> e, val |-> val, io |-> c.io,
     page_duplicate_file_names |-> c.page_duplicate_file_names,
     page_file_matching |-> c.page_file_matching]

\* Lines 484-486
confluence_exception(c) ==
    Fetched("", NoDict, [c EXCEPT !.io = Logged(@, Printed("ERROR", "stderr"))])

\* A request that was not answered 200: utils.http_get raises
\* ConfluenceException for another status; an exception of requests.get
\* itself (an OSError) passes through fetch_page_recursively.
request_failed(c, status) ==
    IF status = "transport" THEN Fetched("TransportError", NoDict, c)
    ELSE confluence_exception(c)

\* The caller's view after a child's call w: the child mutates the dicts it
\* was passed; lines 363-366 give it fresh ones when the caller's are empty.
after_child(c, w) ==
    [c EXCEPT !.io = w.io,
              !.page_duplicate_file_names =
                  IF @ = EmptyDict THEN @ ELSE w.page_duplicate_file_names,
              !.page_file_matching =
                  IF @ = EmptyDict THEN @ ELSE w.page_file_matching]

RECURSIVE fetch_page_recursively(_)
RECURSIVE children_from(_, _, _, _)
RECURSIVE children_listed(_, _, _)

\* Lines 474-475 once the child's call has given w.
child_fetched(c, page, k, i, w) ==
    IF w.exc # "" THEN Fetched(w.exc, NoDict, after_child(c, w))
    ELSE IF ~(Truthy(w.val) /\ "child_pages" \in DOMAIN w.val)
    THEN children_from(after_child(c, w), page, k, i + 1)
    ELSE IF "child_pages" \notin DOMAIN c.path_collection
    THEN Fetched("KeyError", NoDict, after_child(c, w))
    ELSE children_from(
             [after_child(c, w) EXCEPT !.path_collection.child_pages =
                                           Append(@, w.val)],
             page, k, i + 1)

\* Lines 463-482 from child i of result page k on.
children_from(c, page, k, i) ==
    IF i > Len(page.children[k])
    THEN IF k < Len(page.children) THEN children_listed(c, page, k + 1)
         ELSE Fetched("", c.path_collection, c)
    ELSE child_fetched(c, page, k, i,
             fetch_page_recursively(
                 Fetching(c.io, c.remote, page.children[k][i], c.folder_path,
                          c.download_folder, c.space,
                          c.page_duplicate_file_names, c.page_file_matching,
                          EmptyDict, EmptyDict)))

\* Lines 454-481 from result page k of the child listing on.
children_listed(c, page, k) ==
    IF page.children_status # "ok"
    THEN request_failed(
             [c EXCEPT !.io = Logged(@, Get("child/page", c.page_id,
                                            page.children_status))],
             page.children_status)
    ELSE children_from(
             [c EXCEPT !.io = Logged(@, Get("child/page", c.page_id, "ok"))],
             page, k, 1)

\* Lines 451-482 once the forwarding file's write has given w.
forwarder_written(c, page, w) ==
    IF w.exc # "" THEN Fetched(w.exc, NoDict, [c EXCEPT !.io = w.io])
    ELSE children_listed([c EXCEPT !.io = w.io], page, 1)

\* Line 440
forward_header(original_file_link) ==
    S_meta_refresh \o original_file_link \o <<"\"", " ", "/", ">">>

\* Lines 439-449 once encode_url has given original_file_link: the file
\* named after the page id that forwards to the page's file.  The call
\* passes web_url as fifth positional argument and additional_headers by
\* keyword.
forwarder_linked(c, page, original_file_link) ==
    IF original_file_link.exc # "" THEN Fetched(original_file_link.exc, NoDict, c)
    ELSE forwarder_written(c, page,
             write_html_2_file(c.io,
                 PathJoin(c.folder_path, c.page_id \o <<".">> \o html),
                 S_forward_to_page \o page.title,
                 [forward_to |-> original_file_link.val, page_title |-> page.title],
                 <<web_url(c.space, c.page_id)>>,
                 <<<<forward_header(original_file_link.val)>>>>))

\* Lines 436-449
write_forwarder(c, page) ==
    forwarder_linked(c, page, encode_url(sanitize_for_filename(c.file_name)))

\* Lines 436-482 once the page's write has given w.
page_written(c, page, w) ==
    IF w.exc # "" THEN Fetched(w.exc, NoDict, [c EXCEPT !.io = w.io])
    ELSE write_forwarder([c EXCEPT !.io = w.io], page)

\* Lines 431-434 once handle_html_references has given h and
\* create_html_attachment_index has given index: the body and the
\* attachment list go to the page's file, web_url as fifth positional
\* argument.
page_indexed(c, page, h, index) ==
    IF index.exc # "" THEN Fetched(index.exc, NoDict, [c EXCEPT !.io = h.io])
    ELSE page_written(c, page,
             write_html_2_file(h.io, PathJoin(c.folder_path, c.file_name),
                 page.title, [body |-> h.val, attachments |-> index.val],
                 <<web_url(c.space, c.page_id)>>, <<>>))

\* Lines 431-434 once handle_html_references has given h, with the page
\* registry as it left it.
write_page(c, page, h) ==
    IF h.exc # ""
    THEN Fetched(h.exc, NoDict,
                 [c EXCEPT !.io = h.io,
                           !.page_duplicate_file_names = h.duplicate_file_names,
                           !.page_file_matching = h.file_matching])
    ELSE page_indexed(
             [c EXCEPT !.page_duplicate_file_names = h.duplicate_file_names,
                       !.page_file_matching = h.file_matching],
             page, h,
             create_html_attachment_index(c.path_collection.child_attachments))

\* Lines 424-430
rewrite_body(c, page) ==
    write_page(c, page,
               handle_html_references(c.io, page.body,
                                      c.page_duplicate_file_names,
                                      c.page_file_matching, page.parser_fails))

RECURSIVE attachments_listed(_, _, _)

\* Lines 413-422 once process_attachments has given pa: its result replaces
\* path_collection.
attachments_processed(c, page, k, pa) ==
    IF pa.exc # ""
    THEN Fetched(pa.exc, NoDict, [c EXCEPT !.io = pa.io])
    ELSE IF k < Len(page.attachments)
    THEN attachments_listed(
             [c EXCEPT !.io = pa.io,
                       !.attachment_duplicate_file_names = pa.duplicate_file_names,
                       !.attachment_file_matching = pa.file_matching,
                       !.path_collection = pa.val],
             page, k + 1)
    ELSE rewrite_body(
             [c EXCEPT !.io = Logged(pa.io, Registry("attachments", c,
                                                     pa.file_matching)),
                       !.attachment_duplicate_file_names = pa.duplicate_file_names,
                       !.attachment_file_matching = pa.file_matching,
                       !.path_collection = pa.val],
             page)

\* Lines 404-416 once the request for result page k has been answered 200
\* and is in the log.
attachments_answered(c, page, k) ==
    attachments_processed(c, page, k,
        process_attachments(c.io, c.remote, page.attachments[k],
                            c.download_folder,
                            c.attachment_duplicate_file_names,
                            c.attachment_file_matching))

\* Lines 402-422 from result page k of the attachment listing on.
attachments_listed(c, page, k) ==
    IF page.attachments_status # "ok"
    THEN request_failed(
             [c EXCEPT !.io = Logged(@, Get("child/attachment", c.page_id,
                                            page.attachments_status))],
             page.attachments_status)
    ELSE attachments_answered(
             [c EXCEPT !.io = Logged(@, Get("child/attachment", c.page_id, "ok"))],
             page, k)

\* Lines 395-396 once the page has its name r.
page_named(c, page, r) ==
    attachments_listed(
        [c EXCEPT !.page_duplicate_file_names = r.duplicate_file_names,
                  !.page_file_matching = r.file_matching,
                  !.file_name = r.file_name,
                  !.path_collection =
                      [file_path |-> r.file_name, page_title |-> page.title,
                       child_pages |-> <<>>, child_attachments |-> <<>>]],
        page, 1)

\* Lines 378-393 once the request for the page has been answered 200 and
\* is in the log: line 388 prints the page's title and id, and the exception
\* of the print is none that line 484 catches.
page_answered(c, page) ==
    IF print_error(page.title \o c.page_id) # ""
    THEN Fetched(print_error(page.title \o c.page_id), NoDict, c)
    ELSE page_named(c, page,
                    provide_unique_file_name(c.page_duplicate_file_names,
                                             c.page_file_matching, page.title,
                                             FALSE, html))

\* Lines 371-393: the request for the page.
page_requested(c) ==
    IF PageStatus(c.remote, c.page_id) # "ok"
    THEN request_failed(
             [c EXCEPT !.io = Logged(@, Get("page", c.page_id,
                                            PageStatus(c.remote, c.page_id)))],
             PageStatus(c.remote, c.page_id))
    ELSE page_answered(
             [c EXCEPT !.io = Logged(@, Get("page", c.page_id, "ok"))],
             c.remote.pages[c.page_id])

fetch_page_recursively(c) ==
    page_requested(
        [c EXCEPT !.io = Logged(@, Registry("entry", c,
                                            c.attachment_file_matching))])

-----------------------------------------------------------------------------
(* create_html_index and one pass of main's space loop *)

\* False where create_html_index returns it
False == [false |-> TRUE]

RECURSIVE create_html_index(_)
RECURSIVE index_items(_, _, _)

\* Line 506: the link to the page, file_path as line 502 has it
index_link(index_content, file_path) ==
    <<"<", "a", " ", "h", "r", "e", "f", "=", "\"">> \o sanitize_for_filename(file_path)
       \o <<"\"", ">">> \o index_content.page_title \o <<"<", "/", "a", ">">>

\* "%s" % create_html_index(child)
index_text(rendered) == IF rendered = False THEN <<"F", "a", "l", "s", "e">> ELSE rendered

\* Line 511 once the call for child i has given rendered
index_item(page_children, i, html_content, rendered) ==
    IF rendered.exc # "" THEN rendered
    ELSE index_items(page_children, i + 1,
                     html_content \o <<"\t", "<", "l", "i", ">">> \o index_text(rendered.val)
                                  \o <<"<", "/", "l", "i", ">", "\n">>)

\* Lines 510-512 from child i on, html_content being the markup so far
index_items(page_children, i, html_content) ==
    IF i > Len(page_children) THEN Return(html_content \o <<"<", "/", "u", "l", ">", "\n">>)
    ELSE index_item(page_children, i, html_content, create_html_index(page_children[i]))

\* Lines 499-513 without the test of line 508
index_linked_always_list(index_content, file_path) ==
    IF file_path.exc # "" THEN file_path
    ELSE index_items(index_content.child_pages, 1,
                     index_link(index_content, file_path.val) \o <<"<", "u", "l", ">", "\n">>)

\* A variant that makes a list for a page without children too.
create_html_index_always_list(index_content) ==
    IF "file_path" \notin DOMAIN index_content THEN Return(False)
    ELSE index_linked_always_list(index_content, encode_url(index_content.file_path))

\* Lines 499-513 once encode_url has given file_path
index_linked(index_content, file_path) ==
    IF file_path.exc # "" THEN file_path
    ELSE IF Len(index_content.child_pages) > 0
    THEN index_items(index_content.child_pages, 1,
                     index_link(index_content, file_path.val) \o <<"<", "u", "l", ">", "\n">>)
    ELSE Return(index_link(index_content, file_path.val))

\* Lines 495-513: False, or the markup of the link to the page and the list
\* of its children's indexes; the exception of encode_url leaves the call.
create_html_index(index_content) ==
    IF "file_path" \notin DOMAIN index_content THEN Return(False)
    ELSE index_linked(index_content, encode_url(index_content.file_path))

S_index_html == <<"i", "n", "d", "e", "x", ".", "h", "t", "m", "l">>

S_index_of_space ==
    <<"I", "n", "d", "e", "x", " ", "o", "f", " ", "S", "p", "a", "c", "e",
      " ">>

\* os.makedirs(path) that raises nothing
Makedirs(io, path) ==
    Logged(makedirs(io, path).io, [ev |-> "makedirs", path |-> path])

\* shutil.rmtree(folder): the folder and all paths below it go.  On a path
\* that is no folder, listing it raises NotADirectoryError and the path
\* stays.
Rmtree(io, folder) ==
    IF ~IsDir(io, NormPath(folder))
    THEN [exc |-> "NotADirectoryError", io |-> io]
    ELSE [exc |-> "",
          io |-> Logged([io EXCEPT !.fs = [p \in {x \in DOMAIN @ :
                                      /\ x # NormPath(folder)
                                      /\ Slice(x, 0, Len(NormPath(folder)) + 1)
                                           # NormPath(folder) \o <<"/">>}
                              |-> @[p]]],
                        [ev |-> "rmtree", path |-> folder])]

\* Exceptions that are OSErrors: requests' exceptions derive from IOError.
OSErrors == {"OSError", "FileExistsError", "FileNotFoundError", "IsADirectoryError",
             "NotADirectoryError", "TransportError"}

\* What one pass of the space loop gives: the exception that leaves main
\* ("" for none), io, whether the walk was started, and what the walk
\* returned.
Exported(e, io, started, val) ==
    [exc |-> e, io |-> io, started |-> started, val |-> val]

\* Lines 613-618: the two handlers of the loop body.  The warning of line
\* 616 holds the space key; a print that raises does so inside the handler
\* and its exception leaves main.
space_raised(e, io, started, space) ==
    IF e = "ConfluenceException"
    THEN Exported("", Logged(io, Printed("ERROR", "stderr")), started, NoDict)
    ELSE IF e \in OSErrors /\ print_error(space) # ""
    THEN Exported(print_error(space), io, started, NoDict)
    ELSE IF e \in OSErrors
    THEN Exported("", Logged(io, Printed("WARNING", "stdout")), started, NoDict)
    ELSE Exported(e, io, started, NoDict)

\* Line 612 once the index's write has given w.
index_written(val, w, space) ==
    IF w.exc # "" THEN space_raised(w.exc, w.io, TRUE, space)
    ELSE Exported("", w.io, TRUE, val)

\* Lines 610-612 once create_html_index has given space_index_content.
space_indexed(remote, space, space_folder, w, space_index_content) ==
    IF space_index_content.exc # ""
    THEN space_raised(space_index_content.exc, w.io, TRUE, space)
    ELSE IF space_index_content.val = False
    THEN Exported("", w.io, TRUE, w.val)
    ELSE index_written(w.val,
             write_html_2_file(w.io, PathJoin(space_folder, S_index_html),
                 S_index_of_space \o remote.name \o <<" ", "(">> \o space \o <<")">>,
                 space_index_content.val, <<>>, <<>>),
             space)

\* Lines 606-612 once fetch_page_recursively has given w.
space_walked(remote, space, space_folder, w) ==
    IF w.exc # "" THEN space_raised(w.exc, w.io, TRUE, space)
    ELSE IF ~Truthy(w.val) THEN Exported("", w.io, TRUE, w.val)
    ELSE space_indexed(remote, space, space_folder, w, create_html_index(w.val))

\* Lines 595-604 once the request for the space is in the log.  Line 597
\* prints the space's name and key; the walk starts at the homepage, at -1
\* without one (lines 599-602).
space_answered(io, remote, space, space_folder) ==
    IF remote.status = "transport"
    THEN space_raised("TransportError", io, FALSE, space)
    ELSE IF remote.status = "http"
    THEN space_raised("ConfluenceException", io, FALSE, space)
    ELSE IF print_error(remote.name \o space) # ""
    THEN space_raised(print_error(remote.name \o space), io, FALSE, space)
    ELSE space_walked(remote, space, space_folder,
             fetch_page_recursively(
                 Fetching(io, remote,
                          IF remote.homepage = None THEN <<"-", "1">>
                          ELSE remote.homepage,
                          space_folder,
                          PathJoin(space_folder, DOWNLOAD_SUB_FOLDER), space,
                          EmptyDict, EmptyDict, EmptyDict, EmptyDict)))

\* Lines 584-604 once os.makedirs(download_folder) has given made: its
\* exception meets the handlers like that of the first os.makedirs.
download_folder_made(made, remote, space, space_folder) ==
    IF made.exc # "" THEN space_raised(made.exc, made.io, FALSE, space)
    ELSE space_answered(
             Logged(Logged(made.io,
                           [ev |-> "makedirs",
                            path |-> PathJoin(space_folder, DOWNLOAD_SUB_FOLDER)]),
                    Get("space", space, remote.status)),
             remote, space, space_folder)

\* A variant in which os.makedirs takes a folder that exists.
export_space_exist_ok(io, remote, space, space_folder) ==
    IF makedirs(io, space_folder).exc \notin {"", "FileExistsError"}
    THEN space_raised(makedirs(io, space_folder).exc,
                      makedirs(io, space_folder).io, FALSE, space)
    ELSE download_folder_made(
             makedirs(Makedirs(io, space_folder),
                      PathJoin(space_folder, DOWNLOAD_SUB_FOLDER)),
             remote, space, space_folder)

\* Lines 582-618 for one space whose folder name is known.
export_space(io, remote, space, space_folder) ==
    IF makedirs(io, space_folder).exc # ""
    THEN space_raised(makedirs(io, space_folder).exc,
                      makedirs(io, space_folder).io, FALSE, space)
    ELSE download_folder_made(
             makedirs(Makedirs(io, space_folder),
                      PathJoin(space_folder, DOWNLOAD_SUB_FOLDER)),
             remote, space, space_folder)

-----------------------------------------------------------------------------
(* SpecNames: sequences of provide_unique_file_name calls on one registry *)

MaxCalls == 4

\* Titles the calls draw from: the empty title, titles that sanitize to the
\* same string, a title equal to a suffixed name, and titles with dots.
TitlePool ==
    { <<>>,
      <<"?">>, <<":">>, <<"_">>,
      <<"_", "_", "1">>,
      <<"a", ".", "b">>, <<"a", ".", "c">>, <<"a", "_", "1", ".", "c">>,
      <<"a", ".">>, <<".", "b">> }

\* (is_folder, explicit_file_extension) as the code's three callers pass them
NameKinds == { [folder |-> FALSE, ext |-> html],     \* pages
               [folder |-> FALSE, ext |-> None],     \* attachments
               [folder |-> TRUE,  ext |-> None] }    \* space folders

IdleNames ==
    /\ duplicate_file_names = EmptyDict
    /\ file_matching = EmptyDict
    /\ is_folder = FALSE
    /\ explicit_file_extension = None
    /\ file_title = None
    /\ file_name = None
    /\ memo_hit = FALSE
    /\ n_calls = 0

IdleDerive ==
    /\ download_url = None
    /\ url_shape = [shape |-> "none"]
    /\ derived = Return(None)

IdleFetch ==
    /\ attachment_duplicate_file_names = EmptyDict
    /\ attachment_file_matching = EmptyDict
    /\ fetch_calls = <<>>
    /\ fetched = Return(None)

IdleIO == run_io = EmptyIO

IdleRewrite ==
    /\ page_duplicate_file_names = EmptyDict
    /\ page_file_matching = EmptyDict
    /\ page_content = <<>>
    /\ parser_fails = FALSE
    /\ rewritten = Return(<<>>)
    /\ persisted = EmptyDict
    /\ linked = EmptyDict
    /\ first_seen = EmptyDict

IdleMain ==
    /\ pc = "start"
    /\ spaces_to_export = <<>>
    /\ space_counter = 0
    /\ duplicate_space_names = EmptyDict
    /\ space_matching = EmptyDict
    /\ remotes = <<>>
    /\ walks = <<>>
    /\ uncaught = ""

IdleIndex ==
    /\ index_input = NoDict
    /\ html_index = <<>>

InitNames ==
    /\ IdleDerive
    /\ IdleFetch
    /\ IdleIO
    /\ IdleRewrite
    /\ IdleMain
    /\ IdleIndex
    /\ duplicate_file_names = EmptyDict
    /\ file_matching = EmptyDict
    /\ \E k \in NameKinds : is_folder = k.folder /\ explicit_file_extension = k.ext
    /\ file_title = None
    /\ file_name = None
    /\ memo_hit = FALSE
    /\ n_calls = 0

\* The variables after a call that gave r.
Assigned(r) ==
    /\ duplicate_file_names' = r.duplicate_file_names
    /\ file_matching' = r.file_matching
    /\ file_name' = r.file_name

Assign(title) ==
    /\ n_calls < MaxCalls
    /\ Assigned(provide_unique_file_name(duplicate_file_names, file_matching,
                                         title, is_folder, explicit_file_extension))
    /\ file_title' = title
    /\ memo_hit' = (title \in DOMAIN file_matching)
    /\ n_calls' = n_calls + 1
    /\ UNCHANGED <<is_folder, explicit_file_extension, not_names>>

NextNames == \E title \in TitlePool : Assign(title)

SpecNames == InitNames /\ [][NextNames]_vars

\* C1: on one registry (one kind, one extension) any two distinct titles
\* are assigned distinct local names.
C1_DistinctTitlesDistinctNames ==
    \A t1, t2 \in DOMAIN file_matching :
        t1 # t2 => file_matching[t1] # file_matching[t2]

\* C2: once a title has a name in the registry, the name never changes and
\* every later call with that title returns it.
C2_Memoization ==
    [][\A t \in DOMAIN file_matching :
          /\ t \in DOMAIN file_matching'
          /\ file_matching'[t] = file_matching[t]
          /\ (n_calls' # n_calls /\ file_title' = t) => file_name' = file_matching[t]
      ]_vars

\* A title assigned first is asked for again after two other titles, one of
\* which collided with it, and the first name comes back.
C2_Witness ==
    /\ memo_hit
    /\ n_calls = 4
    /\ Cardinality(DOMAIN file_matching) = 3
    /\ file_title = <<"?">>
    /\ <<":">> \in DOMAIN file_matching
    /\ file_name = sanitize_for_filename(file_title)
                      \o (IF is_folder \/ explicit_file_extension = None
                          THEN <<>> ELSE <<".">> \o explicit_file_extension)

\* The titles all sanitize to the string base.
SameBase(titles, base) == \A t \in titles : sanitize_for_filename(t) = base

\* The name the k-th title of a base is due: the base itself, then the base
\* with _1, _2, ...
Suffixed(base, k) == IF k = 1 THEN base ELSE base \o <<"_">> \o Str(k - 1)

\* C11: when the titles assigned so far through a fresh page registry (not
\* a folder, explicit extension html) all sanitize to the same base B, the
\* first of them is named B.html and the k-th distinct one B_(k-1).html.
C11_CollisionSuffixing ==
    [][(/\ n_calls' # n_calls
        /\ ~memo_hit'
        /\ ~is_folder
        /\ explicit_file_extension = html
        /\ SameBase(DOMAIN file_matching', sanitize_for_filename(file_title')))
       => file_name' = Suffixed(sanitize_for_filename(file_title'),
                                Cardinality(DOMAIN file_matching'))
                       \o <<".">> \o html
      ]_vars

\* Three distinct titles that sanitize to "_" have been assigned through a
\* page registry, the third is named "__2.html".
C11_Witness ==
    /\ ~is_folder
    /\ explicit_file_extension = html
    /\ ~memo_hit
    /\ Cardinality(DOMAIN file_matching) = 3
    /\ SameBase(DOMAIN file_matching, <<"_">>)
    /\ file_name = <<"_", "_", "2", ".">> \o html

\* C15: every call returns a name that is not the empty string, whatever
\* the title and the kind of name.
C15_NameNonEmpty == n_calls > 0 => file_name # <<>>

-----------------------------------------------------------------------------
(* SpecDerive: derive_downloaded_file_name on download and preview URLs *)

UrlTypes == {S_attachments, S_thumbnails}

UrlIds == { <<"7">>, <<"4", "2">>, <<"5", "2", "4", "2", "9", "1">> }

\* Original file names: no "/" and no "?" (both are escaped in a URL path)
UrlNames == { <<"a">>, <<"a", ".", "b">>,
              <<"p", "e", "a", "k", ".", "j", "p", "e", "g">>,
              <<"x", ".", "t", "a", "r", ".", "g", "z">>,
              <<"H", " ", "1", ".", "j", "p", "g">> }

\* The query part: <<>> when the URL carries none
UrlQueries == { <<>>,
                <<"?">>,
                <<"?", "v", "=", "1">>,
                <<"?", "v", "=", "1", "&", "a", "p", "i", "=", "v", "2">>,
                <<"?", "r", "=", "/", "x">>,
                <<"?", "a", "?", "b">> }

DownloadUrl(type, id, name, query) ==
    S_download \o type \o <<"/">> \o id \o <<"/">> \o name \o query

PreviewUrl(id) == S_conversion_thumbnail \o id \o <<"/", "1">>

\* URLs of neither shape, and download URLs that are too short
OtherUrls == { <<>>, <<"/">>, <<"/", "x", "/", "y">>,
               S_download, S_download \o <<"x">>,
               S_download \o S_attachments \o <<"/", "7">> }

InitDerive ==
    /\ IdleNames
    /\ IdleDerive
    /\ IdleFetch
    /\ IdleIO
    /\ IdleRewrite
    /\ IdleMain
    /\ IdleIndex

DeriveDownload(type, id, name, query) ==
    /\ download_url' = DownloadUrl(type, id, name, query)
    /\ url_shape' = [shape |-> "download", type |-> type, id |-> id,
                     name |-> name, query |-> query]
    /\ derived' = derive_downloaded_file_name(download_url')
    /\ UNCHANGED not_derive

DerivePreview(id) ==
    /\ download_url' = PreviewUrl(id)
    /\ url_shape' = [shape |-> "preview", id |-> id]
    /\ derived' = derive_downloaded_file_name(download_url')
    /\ UNCHANGED not_derive

DeriveOther(url) ==
    /\ download_url' = url
    /\ url_shape' = [shape |-> "other"]
    /\ derived' = derive_downloaded_file_name(download_url')
    /\ UNCHANGED not_derive

NextDerive ==
    \/ \E type \in UrlTypes, id \in UrlIds, name \in UrlNames, query \in UrlQueries :
          DeriveDownload(type, id, name, query)
    \/ \E id \in UrlIds : DerivePreview(id)
    \/ \E url \in OtherUrls : DeriveOther(url)

SpecDerive == InitDerive /\ [][NextDerive]_vars

\* C9: a download URL /download/<type>/<id>/<name>, with or without a query
\* part, gives <id>_<type>_<name>, the name whole and the query removed; a
\* preview URL .../thumbnail/<id>/1 gives generated_preview_<id>.jpg.
C9_DerivedName ==
    /\ url_shape.shape = "download" =>
          derived = Return(url_shape.id \o <<"_">> \o url_shape.type
                           \o <<"_">> \o url_shape.name)
    /\ url_shape.shape = "preview" =>
          derived = Return(S_generated_preview \o url_shape.id \o <<".">> \o S_jpg)

-----------------------------------------------------------------------------
(* SpecFetch: download_attachment calls on one attachment registry and one *)
(* download folder                                                         *)

MaxFetches == 3

\* export/A/attachments
FetchFolder == PathJoin(PathJoin(EXPORT_FOLDER, <<"A">>), DOWNLOAD_SUB_FOLDER)

Q_v1 == <<"?", "v", "=", "1">>

\* An attachment whose name holds a surrogate without its partner, as
\* json.loads gives it for the escape "\ud800" in the link the service sends
AttLoneName ==
    [url |-> DownloadUrl(S_attachments, <<"7">>, <<Chr(55296), ".", "d", "o", "c">>, Q_v1),
     id  |-> <<"1", "6">>]

\* A picture with such a surrogate in the query of its link
AttLoneQuery ==
    [url |-> DownloadUrl(S_attachments, <<"7">>, <<"q", ".", "p", "n", "g">>,
                         <<"?", "v", "=", Chr(55296)>>),
     id  |-> <<"1", "7">>]

\* The attachments the calls draw from: (download link, attachment id).
\* Three names hold an escaped space; a pdf has a generated preview, a png
\* has a thumbnail, and the doc has the base name of the pdf.  The fourth
\* name holds an escaped colon.  The last two hold a surrogate.
FetchPool ==
    { [url |-> DownloadUrl(S_attachments, <<"7">>,
                           <<"a", "%", "2", "0", "b", ".", "p", "d", "f">>, Q_v1),
       id  |-> <<"1", "2">>],
      [url |-> DownloadUrl(S_attachments, <<"7">>,
                           <<"a", "%", "2", "0", "b", ".", "d", "o", "c">>, Q_v1),
       id  |-> <<"1", "3">>],
      [url |-> DownloadUrl(S_attachments, <<"7">>,
                           <<"a", "%", "2", "0", "b", ".", "p", "n", "g">>, Q_v1),
       id  |-> <<"1", "4">>],
      [url |-> DownloadUrl(S_attachments, <<"7">>,
                           <<"a", "%", "3", "A", "b", ".", "d", "o", "c">>, Q_v1),
       id  |-> <<"1", "5">>],
      AttLoneName, AttLoneQuery }

\* Which of the three transfers of one call the remote service fails, and how
FetchFaults ==
    { [which |-> "none", status |-> "ok"] }
      \cup [which : {"primary"}, status : {"interrupt", "interrupt-copy"}]
      \cup [which : {"primary", "variant"}, status : {"http", "transport", "broken"}]

\* The attachment has a thumbnail or a generated preview to ask for
HasVariant(att) ==
    is_file_format(derive_downloaded_file_name(decode_url(att.url)).val,
                   CONFLUENCE_THUMBNAIL_FORMATS \cup CONFLUENCE_GENERATED_PREVIEW_FORMATS)

\* The faults a call for the attachment can meet: a fault of a request that
\* is never sent is none.  The attachments with a surrogate are fetched
\* where the surrogate is printed: the name before the primary transfer, the
\* query in the warning of a thumbnail that is answered 404.
FetchFaultsOf(att) ==
    IF att = AttLoneName THEN {[which |-> "none", status |-> "ok"]}
    ELSE IF att = AttLoneQuery THEN {[which |-> "variant", status |-> "http"]}
    ELSE {fault \in FetchFaults : fault.which = "variant" => HasVariant(att)}

\* The world in which the transfers of download_attachment(url, id) meet
\* the fault.
FetchWorld(att, fault) ==
    [downloads |->
       IF fault.which = "primary" THEN [u \in {att.url} |-> fault.status]
       ELSE IF fault.which = "variant"
       THEN [u \in {ReplaceFirst(decode_url(att.url), <<"/">> \o S_attachments \o <<"/">>,
                             <<"/">> \o S_thumbnails \o <<"/">>),
                    PreviewUrl(att.id)} |-> fault.status]
       ELSE EmptyDict]

\* The filesystem when the first download_attachment call of a space is
\* made: main has made the export folder, the space's folder and its download
\* folder (lines 541, 583-585).
FetchIO ==
    Stored(Stored(Stored(EmptyIO, EXPORT_FOLDER, [kind |-> "dir"]),
                  PathJoin(EXPORT_FOLDER, <<"A">>), [kind |-> "dir"]),
           FetchFolder, [kind |-> "dir"])

InitFetch ==
    /\ IdleNames
    /\ IdleDerive
    /\ IdleFetch
    /\ run_io = FetchIO
    /\ IdleRewrite
    /\ IdleMain
    /\ IdleIndex

\* An exception that nothing catches ends the run.
FetchCrashed == fetched.exc # ""

\* The variables after a call that gave r.
FetchReturned(r) ==
    /\ run_io' = r.io
    /\ attachment_duplicate_file_names' = r.duplicate_file_names
    /\ attachment_file_matching' = r.file_matching
    /\ fetched' = [exc |-> r.exc, val |-> r.val]

DownloadAttachment(att, fault) ==
    /\ ~FetchCrashed
    /\ Len(fetch_calls) < MaxFetches
    /\ FetchReturned(download_attachment(run_io, FetchWorld(att, fault), att.url,
                                         FetchFolder, att.id,
                                         attachment_duplicate_file_names,
                                         attachment_file_matching))
    /\ fetch_calls' = Append(fetch_calls, [att |-> att, fault |-> fault])
    /\ UNCHANGED not_fetch

NextFetch == \E att \in FetchPool : \E fault \in FetchFaultsOf(att) : DownloadAttachment(att, fault)

SpecFetch == InitFetch /\ [][NextFetch]_vars

Downloads(log) == {i \in 1..Len(log) : log[i].ev = "download"}

\* C8: a transfer is only ever made to a path that does not exist yet, and
\* after a successful transfer to a path no second transfer to it is made.
C8_NoSecondTransfer ==
    /\ [][\A k \in Downloads(run_io'.log) :
            k > Len(run_io.log) => ~Exists(run_io, run_io'.log[k].path)]_vars
    /\ [](\A i, j \in Downloads(run_io.log) :
            (i < j /\ run_io.log[i].status = "ok") => run_io.log[j].path # run_io.log[i].path)

\* The same attachment was fetched in two calls, the first transfer of its
\* file succeeded, and the log holds that one transfer of it only.
C8_Witness ==
    \E a, b \in 1..Len(fetch_calls) :
        /\ a < b
        /\ fetch_calls[a].att = fetch_calls[b].att
        /\ fetch_calls[a].fault.which = "none"
        /\ Cardinality({i \in Downloads(run_io.log) :
                           run_io.log[i].url = fetch_calls[a].att.url}) = 1
        /\ \E i \in Downloads(run_io.log) :
              /\ run_io.log[i].url = fetch_calls[a].att.url
              /\ run_io.log[i].status = "ok"
              /\ run_io.log[i].path \in DOMAIN run_io.fs

\* C19: the file a call has stored is the file that the target written by
\* handle_attachment_links for the attachment's download link, read as a
\* URL, names: the stored name is the name derived from the link, and
\* <download subfolder>/<derived name> below the space folder is the stored
\* file's path.
C19_LinkTargetIsStoredFile ==
    (/\ fetch_calls # <<>>
     /\ fetched.exc = ""
     /\ fetched.val.file_path \in DOMAIN run_io.fs)
    => /\ fetched.val.file_name
          = decode_url(derive_downloaded_file_name(
                           fetch_calls[Len(fetch_calls)].att.url).val)
       /\ fetched.val.file_path
          = PathJoin(PathJoin(EXPORT_FOLDER, <<"A">>),
                     decode_url(relative_file_path(
                         derive_downloaded_file_name(
                             fetch_calls[Len(fetch_calls)].att.url).val)))

-----------------------------------------------------------------------------
(* SpecRewrite: the operations of one space walk on its page registry, in  *)
(* any order: naming a fetched page (lines 390-393) and rewriting a body   *)
(* (lines 425-430).  An exception that leaves either ends the program      *)
(* (line 484 catches utils.ConfluenceException alone).                     *)

\* The warnings of line 139 one walk prints at most
MaxWarnings == 2

\* Links and images as Confluence renders them in a page body.
LinkAB == Element("a", <<"/", "d", "i", "s", "p", "l", "a", "y", "/", "S", "/", "A", "+", "B">>, None, None, <<>>)

LinkAColonB == Element("a", <<"/", "w", "i", "k", "i", "/", "d", "i", "s", "p", "l", "a", "y", "/", "S", "/", "A", "%", "3", "A", "B">>, None, None, <<>>)

LinkAUnderB == Element("a", <<"/", "d", "i", "s", "p", "l", "a", "y", "/", "S", "/", "A", "_", "B">>, None, None, <<>>)

LinkShort == Element("a", <<"x", "/", "d", "i", "s", "p", "l", "a", "y", "/">>, None, None, <<>>)

LinkCreate == Element("a", <<"/", "d", "i", "s", "p", "l", "a", "y", "/", "S", "/", "N", "e", "w">>, None, None, <<"createlink">>)

LinkPageId == Element("a", <<"/", "p", "a", "g", "e", "s", "/", "v", "i", "e", "w", "p", "a", "g", "e", ".", "a", "c", "t", "i", "o", "n", "?", "p", "a", "g", "e", "I", "d", "=", "4", "2">>, None, None, <<>>)

LinkFile == Element("a", <<"/", "d", "o", "w", "n", "l", "o", "a", "d", "/", "a", "t", "t", "a", "c", "h", "m", "e", "n", "t", "s", "/", "1", "2", "/", "a", ".", "p", "d", "f", "?", "v", "e", "r", "s", "i", "o", "n", "=", "1">>, None, None, <<"confluence-embedded-file">>)

LinkFileNoHref == Element("a", None, None, None, <<"confluence-embedded-file">>)

Image == Element("img", None, <<"/", "d", "o", "w", "n", "l", "o", "a", "d", "/", "t", "h", "u", "m", "b", "n", "a", "i", "l", "s", "/", "1", "2", "/", "a", ".", "p", "n", "g", "?", "v", "e", "r", "s", "i", "o", "n", "=", "1">>, None, <<>>)

ImageAlt == Element("img", None, <<"/", "d", "o", "w", "n", "l", "o", "a", "d", "/", "a", "t", "t", "a", "c", "h", "m", "e", "n", "t", "s", "/", "1", "2", "/", "a", ".", "p", "n", "g", "?", "v", "e", "r", "s", "i", "o", "n", "=", "1">>, <<"a">>, <<>>)

Paragraph == Element("p", None, None, None, <<>>)

\* A link whose href holds a surrogate without its partner, as json.loads
\* gives it for the escape "\ud800" in the body the service sends
LinkLone == Element("a", <<"/", "d", "i", "s", "p", "l", "a", "y", "/", "S", "/", "L">> \o <<Chr(55296)>>, None, None, <<>>)

BodyPool == { <<>>, <<Paragraph>>, <<LinkAB>>, <<LinkAColonB, LinkAUnderB>>,
              <<LinkAUnderB, LinkAColonB>>, <<LinkAB, LinkShort>>,
              <<LinkAB, LinkLone>>,
              <<LinkCreate, LinkPageId>>, <<LinkFile, Image, ImageAlt>>,
              <<Image, LinkFileNoHref, LinkFile>> }

PageTitles == { <<"A", " ", "B">>, <<"A", ":", "B">>, <<"A", "_", "B">> }

InitRewrite ==
    /\ IdleNames
    /\ IdleDerive
    /\ IdleFetch
    /\ IdleIO
    /\ IdleRewrite
    /\ IdleMain
    /\ IdleIndex

\* The page each page link of the bodies that can be rewritten goes to, by
\* its title: the three links are to the pages of PageTitles.
LinkTitles ==
    [e \in {LinkAB, LinkAColonB, LinkAUnderB} |->
       IF e = LinkAB THEN <<"A", " ", "B">>
       ELSE IF e = LinkAColonB THEN <<"A", ":", "B">>
       ELSE <<"A", "_", "B">>]

\* The title of the page a page link of the body goes to.
LinkTitle(e) == LinkTitles[e]

\* The titles the links of a rewritten body went to.
LinkedTitles(body) ==
    {LinkTitle(body[i]) : i \in {j \in 1..Len(body) : body[j] \in DOMAIN LinkTitles}}

\* The href the rewritten body has for title t.
LinkedHref(body, val, t) ==
    val[CHOOSE i \in 1..Len(body) :
           body[i] \in DOMAIN LinkTitles /\ LinkTitle(body[i]) = t].href

\* A title is first seen by whichever of the two operations meets it first.
Seen(titles, how) ==
    [t \in DOMAIN first_seen \cup titles |->
       IF t \in DOMAIN first_seen THEN first_seen[t] ELSE how]

\* The variables after a handle_html_references call on body that gave r.
Rewrote(body, fails, r) ==
    /\ run_io' = r.io
    /\ page_duplicate_file_names' = r.duplicate_file_names
    /\ page_file_matching' = r.file_matching
    /\ rewritten' = [exc |-> r.exc, val |-> r.val]
    /\ IF r.exc = "" /\ ~fails
       THEN /\ linked' = [t \in DOMAIN linked \cup LinkedTitles(body) |->
                            IF t \in LinkedTitles(body)
                            THEN LinkedHref(body, r.val, t) ELSE linked[t]]
            /\ first_seen' = Seen(LinkedTitles(body), "link")
       ELSE UNCHANGED <<linked, first_seen>>

\* One call of line 427, made while no exception has left the walk; what it
\* prints comes after what the calls before it printed.
Rewrite(body, fails) ==
    /\ rewritten.exc = ""
    /\ (fails /\ body # <<>>) => Len(run_io.log) < MaxWarnings
    /\ page_content' = body
    /\ parser_fails' = fails
    /\ Rewrote(body, fails,
               handle_html_references(run_io, body, page_duplicate_file_names,
                                      page_file_matching, fails))
    /\ UNCHANGED <<persisted, not_rewrite>>

\* The variables after the page titled title was given the name r.
Named(title, r) ==
    /\ page_duplicate_file_names' = r.duplicate_file_names
    /\ page_file_matching' = r.file_matching
    /\ persisted' = Put(persisted, title, r.file_name)
    /\ first_seen' = Seen({title}, "page")

\* One call of lines 390-393, made while no exception has left the walk.
NamePage(title) ==
    /\ rewritten.exc = ""
    /\ Named(title, provide_unique_file_name(page_duplicate_file_names,
                                             page_file_matching, title, FALSE, html))
    /\ UNCHANGED <<page_content, parser_fails, rewritten, linked, run_io, not_rewrite>>

NextRewrite ==
    \/ \E body \in BodyPool, fails \in BOOLEAN : Rewrite(body, fails)
    \/ \E title \in PageTitles : NamePage(title)

SpecRewrite == InitRewrite /\ [][NextRewrite]_vars

\* C3: within one walk, the file name in a rewritten link to the page titled
\* T (the href, URL-decoded) is the file name the walker gives the page titled
\* T, whichever of the two came first.
C3_LinkAgreesWithPage ==
    \A t \in DOMAIN linked \cap DOMAIN persisted : decode_url(linked[t]) = persisted[t]

\* A link rewritten before its page was named and one rewritten after, one
\* of them to a name that took a suffix and one to a name the href encodes.
C3_Witness ==
    /\ \E t \in DOMAIN linked \cap DOMAIN persisted :
          first_seen[t] = "link" /\ persisted[t] = <<"A", "_", "B", "_", "1", ".">> \o html
    /\ \E t \in DOMAIN linked \cap DOMAIN persisted :
          first_seen[t] = "page" /\ linked[t] # persisted[t]

\* C10: a handle_html_references call on a body the parser rejects returns
\* the body as it was given, raises nothing, leaves the page registry as it
\* was, and prints one warning.
C10_ParseFailureReturnsInput ==
    [][(parser_fails' /\ page_content' # <<>> /\ persisted' = persisted) =>
          /\ rewritten' = Return(page_content')
          /\ page_duplicate_file_names' = page_duplicate_file_names
          /\ page_file_matching' = page_file_matching
          /\ run_io' = Logged(run_io, Printed("WARNING", "stdout"))]_vars

\* The parser rejected a body with page links while the registry had names.
C10_Witness ==
    /\ parser_fails
    /\ \E i \in 1..Len(page_content) : IsPageLink(page_content[i])
    /\ rewritten = Return(page_content)
    /\ page_file_matching # EmptyDict
    /\ LinkedTitles(page_content) \cap DOMAIN page_file_matching = {}

-----------------------------------------------------------------------------
(* Spec: main.  settings.py makes SPACES_TO_EXPORT a list of at least one   *)
(* key (the empty key, of an empty setting); with an empty list main asks  *)
(* the service for its spaces.  The service's answers are chosen anew at   *)
(* each pass of the space loop.                                            *)

\* settings.SPACES_TO_EXPORT: lists of keys, the list of the empty key, the
\* empty list, and a list with a key that holds a surrogate without its
\* partner (the escape "\ud800" in the file .env).
SpacesPool ==
    { <<<<"A">>>>, <<<<"A">>, <<"B">>>>, <<<<"A">>, <<"A">>>>,
      <<<<"A">>, <<"A">>, <<"B">>>>, <<<<>>>>, <<>>,
      <<<<"A">>, <<"L", Chr(55296)>>>> }

\* One answer of the service to the request for its spaces: the keys of one
\* result page; every answer but the last of a listing has a next link.
Listed(status, keys) == [status |-> status, results |-> keys]

\* What the service answers when asked for its spaces: one result page, two
\* result pages, no space at all, and listings that fail at the first or the
\* second request.
ListingPool ==
    { <<Listed("ok", <<<<"A">>>>)>>,
      <<Listed("ok", <<<<"A">>>>), Listed("ok", <<<<"B">>>>)>>,
      <<Listed("ok", <<>>)>>,
      <<Listed("http", <<>>)>>,
      <<Listed("transport", <<>>)>>,
      <<Listed("ok", <<<<"A">>>>), Listed("http", <<>>)>> }

S_Home == <<"H", "o", "m", "e">>

S_Kid_One == <<"K", "i", "d", " ", "O", "n", "e">>

S_Kid_Two == <<"K", "i", "d", " ", "T", "w", "o">>

LinkHome == Element("a", <<"/", "d", "i", "s", "p", "l", "a", "y", "/", "A", "/", "H", "o", "m", "e">>, None, None, <<>>)

LinkKidOne == Element("a", <<"/", "d", "i", "s", "p", "l", "a", "y", "/", "A", "/", "K", "i", "d", "+", "O", "n", "e">>, None, None, <<>>)

Q_report == <<"/", "d", "o", "w", "n", "l", "o", "a", "d", "/", "a", "t", "t", "a", "c", "h", "m", "e", "n", "t", "s", "/", "1", "/", "a", "%", "2", "0", "b", ".", "p", "d", "f", "?", "v", "e", "r", "s", "i", "o", "n", "=", "1">>

\* A page of the service with all its requests answered 200.
Page(title, body, attachments, children) ==
    [title |-> title, body |-> body, parser_fails |-> FALSE,
     attachments |-> attachments, children |-> children,
     status |-> "ok", attachments_status |-> "ok", children_status |-> "ok"]

\* A link to the homepage by its page id
LinkHomeById == Element("a", S_viewpage \o <<"1">>, None, None, <<>>)

\* A homepage alone, and a homepage with one attachment, two children and
\* links to itself by title and by page id.
TreeSingle ==
    [id \in {<<"1">>} |-> Page(S_Home, <<Paragraph>>, <<<<>>>>, <<<<>>>>)]

TreeFamily ==
    [id \in {<<"1">>, <<"2">>, <<"3">>} |->
       IF id = <<"1">>
       THEN Page(S_Home, <<LinkHome, LinkKidOne, LinkHomeById>>,
                 <<<<[download |-> Q_report, id |-> <<"a", "t", "t", "1", "2">>]>>>>,
                 <<<<<<"2">>, <<"3">>>>>>)
       ELSE IF id = <<"2">> THEN Page(S_Kid_One, <<LinkHome>>, <<<<>>>>, <<<<>>>>)
       ELSE Page(S_Kid_Two, <<Paragraph>>, <<<<>>>>, <<<<>>>>)]

Q_pic == DownloadUrl(S_attachments, <<"1">>, <<"p", "i", "c", ".", "p", "n", "g">>, Q_v1)

Q_notes == DownloadUrl(S_attachments, <<"1">>, <<"n", ".", "d", "o", "c">>, Q_v1)

ImagePic == Element("img", None, Q_pic, None, <<>>)

ImagePreview == Element("img", None, PreviewUrl(<<"1", "2">>), None, <<>>)

LinkReport == Element("a", Q_report, None, None, <<"confluence-embedded-file">>)

\* A homepage that shows an attached picture and the preview of an attached
\* pdf and links to the pdf; its attachment listing has two result pages.
TreePaged ==
    [id \in {<<"1">>} |->
       Page(S_Home, <<ImagePic, ImagePreview, LinkReport>>,
            <<<<[download |-> Q_report, id |-> <<"a", "t", "t", "1", "2">>],
                [download |-> Q_pic, id |-> <<"a", "t", "t", "1", "3">>]>>,
              <<[download |-> Q_notes, id |-> <<"a", "t", "t", "1", "4">>]>>>>,
            <<<<>>>>)]

\* A homepage whose title is the placeholder of the content in a template
TreePlaceholder ==
    [id \in {<<"1">>} |->
        Page(<<"{", "%", "c", "o", "n", "t", "e", "n", "t", "%", "}">>,
             <<Paragraph>>, <<<<>>>>, <<<<>>>>)]

\* A homepage whose title holds a surrogate without its partner
TreeLone ==
    [id \in {<<"1">>} |-> Page(<<"L", Chr(55296)>>, <<Paragraph>>, <<<<>>>>, <<<<>>>>)]

Trees == {TreeSingle, TreeFamily, TreePaged, TreePlaceholder, TreeLone}

\* What can go wrong during one space's export.
Faults ==
    {[at |-> "none", id |-> <<>>, status |-> "ok"],
     [at |-> "homepage", id |-> <<>>, status |-> "ok"],
     [at |-> "parser", id |-> <<"1">>, status |-> "ok"]}
    \cup [at : {"space", "download"}, id : {<<>>}, status : {"http", "transport"}]
    \cup [at : {"download"}, id : {<<>>}, status : {"broken", "interrupt", "interrupt-copy"}]
    \cup [at : {"page"}, id : {<<"1">>, <<"2">>}, status : {"http", "transport"}]
    \cup [at : {"attachments", "children"}, id : {<<"1">>}, status : {"http", "transport"}]

\* The page with the fault applied.
FaultyPage(page, id, fault) ==
    IF fault.id # id THEN page
    ELSE IF fault.at = "page" THEN [page EXCEPT !.status = fault.status]
    ELSE IF fault.at = "attachments"
    THEN [page EXCEPT !.attachments_status = fault.status]
    ELSE IF fault.at = "children"
    THEN [page EXCEPT !.children_status = fault.status]
    ELSE IF fault.at = "parser" THEN [page EXCEPT !.parser_fails = TRUE]
    ELSE page

Remote(tree, fault) ==
    [name |-> <<"S", "p", "a", "c", "e">>,
     homepage |-> IF fault.at = "homepage" THEN None ELSE <<"1">>,
     status |-> IF fault.at = "space" THEN fault.status ELSE "ok",
     pages |-> [id \in DOMAIN tree |-> FaultyPage(tree[id], id, fault)],
     downloads |-> IF fault.at = "download"
                   THEN [u \in {Q_report} |-> fault.status] ELSE EmptyDict]

\* The faults each tree is exported with: those of the space's own request
\* on the single page, those of pages and listings on the family, those of
\* downloads where there are attachments.
FaultsOf(tree) ==
    IF tree = TreeSingle
    THEN {f \in Faults : f.at \in {"none", "space", "homepage"}}
    ELSE IF tree = TreeFamily
    THEN {f \in Faults : f.at \notin {"space", "homepage"}}
    ELSE IF tree = TreePaged
    THEN {f \in Faults : f.at \in {"none", "download"}}
    ELSE {f \in Faults : f.at = "none"}

\* A space whose name holds a surrogate without its partner
RemoteLoneName ==
    [Remote(TreeSingle, [at |-> "none", id |-> <<>>, status |-> "ok"])
        EXCEPT !.name = <<"S", Chr(55296)>>]

RemotePool ==
    UNION {{Remote(tree, fault) : fault \in FaultsOf(tree)} : tree \in Trees}
      \cup {RemoteLoneName}

\* The path the attachment of Q_report is stored at in space A.
StalePath ==
    PathJoin(PathJoin(PathJoin(EXPORT_FOLDER, <<"A">>), DOWNLOAD_SUB_FOLDER),
             derive_downloaded_file_name(decode_url(Q_report)).val)

\* What a former run left in the export folder: the folders of space A, its
\* index and the attachment of Q_report.
StaleExport ==
    [fs |-> [p \in {EXPORT_FOLDER, PathJoin(EXPORT_FOLDER, <<"A">>),
                    PathJoin(PathJoin(EXPORT_FOLDER, <<"A">>), DOWNLOAD_SUB_FOLDER),
                    PathJoin(PathJoin(EXPORT_FOLDER, <<"A">>), S_index_html),
                    StalePath}
             |-> IF p = StalePath THEN [kind |-> "file", url |-> Q_report]
                 ELSE IF p = PathJoin(PathJoin(EXPORT_FOLDER, <<"A">>), S_index_html)
                 THEN [kind |-> "stale"]
                 ELSE [kind |-> "dir"]],
     log |-> <<>>]

\* A regular file at the path of the export folder
ExportIsFile == Stored(EmptyIO, EXPORT_FOLDER, [kind |-> "stale"])

Init ==
    /\ IdleNames
    /\ IdleDerive
    /\ IdleFetch
    /\ IdleRewrite
    /\ IdleIndex
    /\ run_io \in {EmptyIO, StaleExport, ExportIsFile}
    /\ pc = "start"
    /\ spaces_to_export \in SpacesPool
    /\ space_counter = 0
    /\ duplicate_space_names = EmptyDict
    /\ space_matching = EmptyDict
    /\ remotes = <<>>
    /\ walks = <<>>
    /\ uncaught = ""

RECURSIVE list_spaces(_, _, _, _)
\* Lines 550-568: the service is asked for its spaces, result page after
\* result page while the answer has a next link; a request that fails
\* raises.  found holds the keys appended so far, k is the request's number.
list_spaces(io, listing, k, found) ==
    IF k > Len(listing) THEN [exc |-> "", val |-> found, io |-> io]
    ELSE IF listing[k].status = "transport"
    THEN [exc |-> "TransportError", val |-> found,
          io |-> Logged(io, Get("spaces", <<>>, "transport"))]
    ELSE IF listing[k].status = "http"
    THEN [exc |-> "ConfluenceException", val |-> found,
          io |-> Logged(io, Get("spaces", <<>>, "http"))]
    ELSE list_spaces(Logged(io, Get("spaces", <<>>, "ok")), listing, k + 1,
                     found \o listing[k].results)

\* What is at the path of settings.TEMPLATE_FILE: a file of UTF-8 text, no
\* file, a folder, or a file whose bytes are not UTF-8 text.
Templates == {"file", "missing", "folder", "undecodable"}

\* Lines 544-568: the template is opened, which raises when the file is not
\* there or the path is a folder, and read as text, which raises when its
\* bytes are not UTF-8; the spaces are those of the settings, or with none
\* configured those the service lists.
spaces_of(io, template, configured, listing) ==
    IF template = "missing"
    THEN [exc |-> "FileNotFoundError", val |-> configured, io |-> io]
    ELSE IF template = "folder"
    THEN [exc |-> "IsADirectoryError", val |-> configured, io |-> io]
    ELSE IF template = "undecodable"
    THEN [exc |-> "UnicodeDecodeError", val |-> configured, io |-> io]
    ELSE IF Len(configured) > 0 THEN [exc |-> "", val |-> configured, io |-> io]
    ELSE list_spaces(io, listing, 1, <<>>)

\* Line 570 once the spaces are known: their keys are printed.
spaces_printed(r) ==
    IF r.exc # "" THEN r
    ELSE [r EXCEPT !.exc = print_error(Join(r.val, <<",", " ">>))]

\* Lines 539-570 once the old export has been deleted, which gave removed.
export_removed(removed, template, configured, listing) ==
    IF removed.exc # ""
    THEN [exc |-> removed.exc, val |-> configured, io |-> removed.io]
    ELSE spaces_printed(spaces_of(Makedirs(removed.io, EXPORT_FOLDER),
                                  template, configured, listing))

\* Lines 539-570: the old export is deleted, the export folder created, the
\* template read, the spaces to export determined and their keys printed.
main_started(io, template, configured, listing) ==
    export_removed(IF Exists(io, EXPORT_FOLDER) THEN Rmtree(io, EXPORT_FOLDER)
                   ELSE [exc |-> "", io |-> io],
                   template, configured, listing)

\* The variables once the loop can start, or a statement before it has
\* raised: no handler of main is around lines 539-570.
Started(r) ==
    /\ run_io' = r.io
    /\ spaces_to_export' = r.val
    /\ uncaught' = r.exc
    /\ pc' = IF r.exc # "" THEN "crashed" ELSE "spaces"

\* Lines 538-570
MainStart ==
    /\ pc = "start"
    /\ \E listing \in IF spaces_to_export = <<>> THEN ListingPool ELSE {<<>>} :
          \E template \in Templates :
             Started(main_started(run_io, template, spaces_to_export, listing))
    /\ UNCHANGED <<space_counter, duplicate_space_names,
                   space_matching, remotes, walks, not_main>>

\* The variables after a pass of the loop gave x.  An exception leaves main;
\* a KeyboardInterrupt meets the handler of lines 627-629, which prints an
\* error and exits.
SpaceDone(space_folder, x) ==
    /\ run_io' = IF x.exc = "KeyboardInterrupt"
                  THEN Logged(x.io, Printed("ERROR", "stderr")) ELSE x.io
    /\ uncaught' = x.exc
    /\ pc' = IF x.exc = "KeyboardInterrupt" THEN "interrupted"
             ELSE IF x.exc # "" THEN "crashed" ELSE "spaces"
    /\ walks' = Append(walks, [space_folder |-> space_folder, exc |-> x.exc,
                               started |-> x.started, val |-> x.val,
                               log |-> SubSeq(x.io.log, Len(run_io.log) + 1,
                                              Len(x.io.log))])

\* Lines 580-618 once the space has its folder name r.
SpaceNamed(remote, space, r) ==
    /\ duplicate_space_names' = r.duplicate_file_names
    /\ space_matching' = r.file_matching
    /\ SpaceDone(PathJoin(EXPORT_FOLDER, r.file_name),
                 export_space(run_io, remote, space,
                              PathJoin(EXPORT_FOLDER, r.file_name)))

\* Lines 576-618: one pass of the space loop, its whole walk included.
ExportSpace(remote) ==
    /\ pc = "spaces"
    /\ space_counter < Len(spaces_to_export)
    /\ space_counter' = space_counter + 1
    /\ remotes' = Append(remotes, remote)
    /\ SpaceNamed(remote, spaces_to_export[space_counter + 1],
                  provide_unique_file_name(duplicate_space_names, space_matching,
                                           spaces_to_export[space_counter + 1],
                                           TRUE, None))
    /\ UNCHANGED <<spaces_to_export, not_main>>

\* Lines 620-621: the loop is over.
MainFinish ==
    /\ pc = "spaces"
    /\ space_counter = Len(spaces_to_export)
    /\ pc' = "finished"
    /\ UNCHANGED <<run_io, spaces_to_export, space_counter, duplicate_space_names,
                   space_matching, remotes, walks, uncaught, not_main>>

Next ==
    \/ MainStart
    \/ \E remote \in RemotePool : ExportSpace(remote)
    \/ MainFinish

Spec == Init /\ [][Next]_vars

\* The requests of the page and of all pages below it are answered 200.
RECURSIVE SubtreeOk(_, _)
SubtreeOk(remote, id) ==
    /\ id \in DOMAIN remote.pages
    /\ remote.pages[id].status = "ok"
    /\ remote.pages[id].attachments_status = "ok"
    /\ remote.pages[id].children_status = "ok"
    /\ \A k \in 1..Len(remote.pages[id].children) :
         \A i \in 1..Len(remote.pages[id].children[k]) :
            SubtreeOk(remote, remote.pages[id].children[k][i])

\* Every request of the space's export is answered 200.
AllOk(remote) ==
    /\ remote.status = "ok"
    /\ remote.homepage # None
    /\ remote.downloads = EmptyDict
    /\ SubtreeOk(remote, remote.homepage)

\* The children of a page over all result pages, in the service's order.
RECURSIVE Flat(_)
Flat(result_pages) ==
    IF result_pages = <<>> THEN <<>>
    ELSE Head(result_pages) \o Flat(Tail(result_pages))

\* The artifact is the node of the page id: its title, the file name the
\* page was written under, and its children's nodes in order.
RECURSIVE IsArtifactOf(_, _, _, _)
IsArtifactOf(node, remote, id, folder) ==
    /\ Truthy(node)
    /\ {"file_path", "page_title", "child_pages"} \subseteq DOMAIN node
    /\ node.page_title = remote.pages[id].title
    /\ PathJoin(folder, node.file_path) \in DOMAIN run_io.fs
    /\ run_io.fs[PathJoin(folder, node.file_path)].title = node.page_title
    /\ Len(node.child_pages) = Len(Flat(remote.pages[id].children))
    /\ \A i \in 1..Len(node.child_pages) :
         IsArtifactOf(node.child_pages[i], remote,
                      Flat(remote.pages[id].children)[i], folder)

\* The walk's own page is fine and one of its children fails.
ChildFails(remote) ==
    /\ remote.status = "ok"
    /\ remote.homepage # None
    /\ remote.downloads = EmptyDict
    /\ LET root == remote.pages[remote.homepage]
       IN  /\ root.status = "ok"
           /\ root.attachments_status = "ok"
           /\ root.children_status = "ok"
           /\ \E i \in 1..Len(Flat(root.children)) :
                ~SubtreeOk(remote, Flat(root.children)[i])

\* The titles of the children of the homepage that can be fetched.
RECURSIVE FetchableTitles(_, _)
FetchableTitles(remote, ids) ==
    IF ids = <<>> THEN <<>>
    ELSE (IF SubtreeOk(remote, Head(ids))
          THEN <<remote.pages[Head(ids)].title>> ELSE <<>>)
         \o FetchableTitles(remote, Tail(ids))

\* C4: when a child of the page a walk starts at cannot be fetched, the walk
\* returns an artifact whose child_pages are the artifacts of the other
\* children, in order.
C4_SiblingsKept ==
    \A i \in 1..Len(walks) :
       (walks[i].started /\ ChildFails(remotes[i])) =>
          /\ Truthy(walks[i].val)
          /\ "child_pages" \in DOMAIN walks[i].val
          /\ [j \in 1..Len(walks[i].val.child_pages) |->
                walks[i].val.child_pages[j].page_title]
             = FetchableTitles(remotes[i],
                               Flat(remotes[i].pages[remotes[i].homepage].children))

\* C5: after a walk in which every request is answered 200 the artifact
\* returned has one node per page of the service's tree, each with the
\* page's title and file name and its children's nodes in order.
C5_ArtifactTreeComplete ==
    \A i \in 1..Len(walks) :
       (walks[i].started /\ AllOk(remotes[i])) =>
          IsArtifactOf(walks[i].val, remotes[i], remotes[i].homepage,
                       walks[i].space_folder)

\* C6: once the pass of the loop for a space is over whose every request was
\* answered 200, the space's folder holds index.html.
C6_IndexWritten ==
    \A i \in 1..Len(walks) :
       (walks[i].started /\ AllOk(remotes[i])) =>
          /\ PathJoin(walks[i].space_folder, S_index_html) \in DOMAIN run_io.fs
          /\ run_io.fs[PathJoin(walks[i].space_folder, S_index_html)].kind = "html"

\* C7: no exception leaves the space loop, and when main has ended the loop
\* has made a pass for every requested space.
C7_EverySpaceAttempted ==
    /\ uncaught = ""
    /\ pc \in {"finished", "crashed"} => space_counter = Len(spaces_to_export)

\* The entries of pass i's log that record a registry at the given point of
\* the processing of page id.
RegistryEvents(i, at, id) ==
    {k \in 1..Len(walks[i].log) :
        /\ walks[i].log[k].ev = "registry"
        /\ walks[i].log[k].at = at
        /\ walks[i].log[k].page_id = id}

\* Every assignment of the registry small is in the registry big.
Holds(big, small) ==
    \A t \in DOMAIN small : t \in DOMAIN big /\ big[t] = small[t]

\* C12: in a walk whose every request is answered 200, every page of the
\* space is processed, and the attachment registry a page is processed with
\* holds every name assigned while a page before it was processed.
C12_AttachmentRegistryShared ==
    \A i \in 1..Len(walks) :
       (walks[i].started /\ AllOk(remotes[i])) =>
          \A id \in DOMAIN remotes[i].pages :
             /\ RegistryEvents(i, "entry", id) # {}
             /\ \A k \in RegistryEvents(i, "entry", id) :
                  \A j \in 1..(k - 1) :
                     (walks[i].log[j].ev = "registry"
                        /\ walks[i].log[j].at = "attachments")
                     => Holds(walks[i].log[k].attachment_file_matching,
                              walks[i].log[j].attachment_file_matching)

\* The paths pass i wrote the document of page id to: the writes of a
\* document that carries the page's title.
PageDocs(i, id) ==
    {walks[i].log[k].path : k \in
        {k \in 1..Len(walks[i].log) :
            /\ walks[i].log[k].ev = "write"
            /\ run_io.fs[walks[i].log[k].path].title = remotes[i].pages[id].title}}

\* The file is a document that forwards to the file name.
IsForwarder(path, name) ==
    /\ path \in DOMAIN run_io.fs
    /\ run_io.fs[path].kind = "html"
    /\ "forward_to" \in DOMAIN run_io.fs[path].content
    /\ run_io.fs[path].content.forward_to = encode_url(sanitize_for_filename(name)).val

\* C13: for every page whose document a walk has written, the space folder
\* also holds <page id>.html, which forwards to the document's file name.
C13_ForwarderWritten ==
    \A i \in 1..Len(walks) :
       \A id \in DOMAIN remotes[i].pages :
          \A path \in PageDocs(i, id) :
             IsForwarder(PathJoin(walks[i].space_folder, id \o <<".">> \o html),
                         Slice(path, Len(walks[i].space_folder) + 1, Len(path)))

\* C14: when main starts on an export folder that holds the attachment
\* files of an earlier run, no transfer is made for those files.
C14_EarlierDownloadsKept ==
    (\E k \in 1..Len(run_io.log) : run_io.log[k].ev = "rmtree")
    => \A k \in Downloads(run_io.log) :
          ~(/\ run_io.log[k].path \in DOMAIN StaleExport.fs
            /\ StaleExport.fs[run_io.log[k].path].kind = "file")

\* C16: a pass of the space loop for a space whose folder exists already
\* starts no walk and sends no request, prints one warning, and leaves main
\* in the loop, from where it goes on to the next space.
C16_ExistingFolderSkipped ==
    [][(/\ space_counter' = space_counter + 1
        /\ Exists(run_io, walks'[Len(walks')].space_folder))
       => /\ ~walks'[Len(walks')].started
          /\ run_io'.fs = run_io.fs
          /\ run_io'.log = Append(run_io.log, Printed("WARNING", "stdout"))
          /\ uncaught' = ""
          /\ pc' = "spaces"
      ]_vars

\* Space A was requested twice and then B: the second pass found A's folder
\* and logged the warning only, the third sent the request for space B.
C16_Witness ==
    /\ Len(walks) = 3
    /\ spaces_to_export[1] = spaces_to_export[2]
    /\ walks[2].space_folder = walks[1].space_folder
    /\ walks[2].log = <<Printed("WARNING", "stdout")>>
    /\ walks[3].space_folder # walks[2].space_folder
    /\ \E k \in 1..Len(walks[3].log) :
          /\ walks[3].log[k].ev = "get"
          /\ walks[3].log[k].what = "space"
          /\ walks[3].log[k].id = spaces_to_export[3]

\* The request for page id was sent during pass i.
PageRequested(i, id) ==
    \E k \in 1..Len(walks[i].log) :
       /\ walks[i].log[k].ev = "get"
       /\ walks[i].log[k].what = "page"
       /\ walks[i].log[k].id = id

\* The artifact has no node for the title among its children.
NoChildTitled(val, title) ==
    (Truthy(val) /\ "child_pages" \in DOMAIN val)
    => \A j \in 1..Len(val.child_pages) : val.child_pages[j].page_title # title

\* C17: when the request for a child of the page a walk starts at fails, by
\* a status other than 200 or by a transport error, and the child has a next
\* sibling, the request for that sibling is sent, the walk is not ended by
\* an exception and its artifact has no node for the failed child.
C17_FailedChildSkipped ==
    \A i \in 1..Len(walks) :
       (walks[i].started /\ ChildFails(remotes[i])) =>
          \A j \in 1..(Len(Flat(remotes[i].pages[remotes[i].homepage].children)) - 1) :
             PageStatus(remotes[i],
                        Flat(remotes[i].pages[remotes[i].homepage].children)[j]) # "ok"
             => /\ PageRequested(i, Flat(remotes[i].pages[remotes[i].homepage].children)[j + 1])
                /\ walks[i].exc = ""
                /\ NoChildTitled(walks[i].val,
                       remotes[i].pages[Flat(remotes[i].pages[remotes[i].homepage].children)[j]].title)

\* The attachments of a listing, over all its result pages, that
\* process_attachments does not skip.
Kept(attachments) ==
    {j \in 1..Len(Flat(attachments)) : ~is_skipped(Flat(attachments)[j].download)}

\* The list names the file of the download link.
Lists(entries, download, field) ==
    \E e \in 1..Len(entries) :
       entries[e][field] = derive_downloaded_file_name(decode_url(download)).val

\* C18: the Attachments section of a page's document names every attachment
\* of the page's listing that is not skipped, whatever result page it is on,
\* and so does the artifact when the walk returns one.
C18_AllAttachmentsListed ==
    \A i \in 1..Len(walks) :
       \A id \in DOMAIN remotes[i].pages :
          \A j \in Kept(remotes[i].pages[id].attachments) :
             /\ \A path \in PageDocs(i, id) :
                   Lists(run_io.fs[path].content.attachments,
                         Flat(remotes[i].pages[id].attachments)[j].download, "text")
             /\ (Truthy(walks[i].val) /\ id = remotes[i].homepage)
                => /\ "child_attachments" \in DOMAIN walks[i].val
                   /\ Lists(walks[i].val.child_attachments,
                            Flat(remotes[i].pages[id].attachments)[j].download,
                            "file_name")

\* The image elements of a document whose source the rewriter has set to a
\* path below the download subfolder.
RedirectedImages(path) ==
    {e \in 1..Len(run_io.fs[path].content.body) :
        /\ run_io.fs[path].content.body[e].tag = "img"
        /\ run_io.fs[path].content.body[e].src # None
        /\ Prefix(run_io.fs[path].content.body[e].src, Len(DOWNLOAD_SUB_FOLDER) + 1)
           = DOWNLOAD_SUB_FOLDER \o <<"/">>}

\* C20: after a walk whose every request is answered 200, every image of a
\* written document whose source was redirected to <download subfolder>/<name>
\* has the file <name> in the space's download folder.
C20_ImagesHaveFiles ==
    \A i \in 1..Len(walks) :
       (walks[i].started /\ AllOk(remotes[i])) =>
          \A id \in DOMAIN remotes[i].pages :
             \A path \in PageDocs(i, id) :
                \A e \in RedirectedImages(path) :
                   PathJoin(walks[i].space_folder,
                            run_io.fs[path].content.body[e].src) \in DOMAIN run_io.fs

\* The page and all pages below it.
RECURSIVE SubtreeIds(_, _)
SubtreeIds(remote, id) ==
    {id} \cup UNION {SubtreeIds(remote, Flat(remote.pages[id].children)[j]) :
                        j \in 1..Len(Flat(remote.pages[id].children))}

\* During pass i the document of page doc was written before the request
\* for page next was sent.
WrittenBeforeFetch(i, doc, next) ==
    \E w, g \in 1..Len(walks[i].log) :
       /\ w < g
       /\ walks[i].log[w].ev = "write"
       /\ run_io.fs[walks[i].log[w].path].title = remotes[i].pages[doc].title
       /\ walks[i].log[g].ev = "get"
       /\ walks[i].log[g].what = "page"
       /\ walks[i].log[g].id = next

\* C21: in a walk whose every request is answered 200, the document of a
\* page is written before each of its children is requested, and the
\* documents of a child and of all pages below it are written before the
\* next child, in the order of the child listing over all its result pages,
\* is requested.
C21_DepthFirstPreOrder ==
    \A i \in 1..Len(walks) :
       (walks[i].started /\ AllOk(remotes[i])) =>
          \A id \in SubtreeIds(remotes[i], remotes[i].homepage) :
             \A j \in 1..Len(Flat(remotes[i].pages[id].children)) :
                /\ WrittenBeforeFetch(i, id, Flat(remotes[i].pages[id].children)[j])
                /\ j > 1 =>
                     \A d \in SubtreeIds(remotes[i],
                                         Flat(remotes[i].pages[id].children)[j - 1]) :
                        WrittenBeforeFetch(i, d, Flat(remotes[i].pages[id].children)[j])

\* C22: every entry of the Attachments section of a written page document
\* links to a file that is in the space's download folder.
C22_ListedAttachmentsStored ==
    \A i \in 1..Len(walks) :
       \A id \in DOMAIN remotes[i].pages :
          \A path \in PageDocs(i, id) :
             \A e \in 1..Len(run_io.fs[path].content.attachments) :
                PathJoin(walks[i].space_folder,
                         decode_url(run_io.fs[path].content.attachments[e].href))
                   \in DOMAIN run_io.fs

\* C23: a handle_html_references call raises nothing, whatever the body.
C23_RewriterNeverRaises == page_content # <<>> => rewritten.exc = ""

\* The call on att would, were every transfer answered 200, fetch a
\* thumbnail or a generated preview, and the fault fails that fetch.
VariantFetchFails(att, fault) ==
    /\ fault.which = "variant"
    /\ \E k \in Downloads(download_attachment(run_io, [downloads |-> EmptyDict], att.url, FetchFolder, att.id,
                                              attachment_duplicate_file_names,
                                              attachment_file_matching).io.log) :
          /\ k > Len(run_io.log)
          /\ download_attachment(run_io, [downloads |-> EmptyDict], att.url, FetchFolder, att.id,
                                 attachment_duplicate_file_names,
                                 attachment_file_matching).io.log[k].url
                \in DOMAIN FetchWorld(att, fault).downloads

\* C24: a download_attachment call whose thumbnail or generated-preview
\* fetch fails raises nothing, prints a warning and no error, and returns the
\* name and path it returns when that fetch succeeds.
C24_VariantFailureIsQuiet ==
    [][\A att \in FetchPool, fault \in FetchFaults :
          (/\ fetch_calls' = Append(fetch_calls, [att |-> att, fault |-> fault])
           /\ VariantFetchFails(att, fault)) =>
             /\ fetched'.exc = ""
             /\ fetched'.val = download_attachment(run_io, [downloads |-> EmptyDict], att.url, FetchFolder,
                                                   att.id, attachment_duplicate_file_names,
                                                   attachment_file_matching).val
             /\ \E k \in Len(run_io.log) + 1..Len(run_io'.log) :
                   run_io'.log[k] = Printed("WARNING", "stdout")
             /\ \A k \in Len(run_io.log) + 1..Len(run_io'.log) :
                   run_io'.log[k].ev = "print" => run_io'.log[k].level # "ERROR"]_vars

-----------------------------------------------------------------------------
(* process_attachments on one result page of an attachment listing, from a *)
(* fresh download folder and fresh registries                              *)

MaxResults == 3

\* The attachments a result page can hold.  Two documents:
AttPdf ==
    [download |-> DownloadUrl(S_attachments, <<"7">>, <<"a", ".", "p", "d", "f">>, Q_v1),
     id |-> <<"a", "t", "t", "2", "1">>]

AttDoc ==
    [download |-> DownloadUrl(S_attachments, <<"7">>, <<"b", ".", "d", "o", "c">>, Q_v1),
     id |-> <<"a", "t", "t", "2", "2">>]

\* An image with an upper-case extension
AttPNG ==
    [download |-> DownloadUrl(S_attachments, <<"7">>, <<"c", ".", "P", "N", "G">>, Q_v1),
     id |-> <<"a", "t", "t", "2", "3">>]

\* An image without a query
AttJpeg ==
    [download |-> DownloadUrl(S_attachments, <<"7">>, <<"d", ".", "j", "p", "e", "g">>, <<>>),
     id |-> <<"a", "t", "t", "2", "4">>]

\* A video whose last path segment has parameters
AttMovParams ==
    [download |-> DownloadUrl(S_attachments, <<"7">>,
                              <<"e", ".", "m", "o", "v", ";", "x", "=", "1">>, Q_v1),
     id |-> <<"a", "t", "t", "2", "5">>]

\* A document with an image extension inside its name
AttGifTxt ==
    [download |-> DownloadUrl(S_attachments, <<"7">>,
                              <<"f", ".", "g", "i", "f", ".", "t", "x", "t">>, Q_v1),
     id |-> <<"a", "t", "t", "2", "6">>]

\* A document with an image extension in its query
AttTxtQueryPng ==
    [download |-> DownloadUrl(S_attachments, <<"7">>, <<"g", ".", "t", "x", "t">>,
                              <<"?", "v", "=", ".", "p", "n", "g">>),
     id |-> <<"a", "t", "t", "2", "7">>]

\* An image whose link ends in a line feed, which is no part of a URL
AttJpgLineFeed ==
    [download |-> DownloadUrl(S_attachments, <<"7">>, <<"h", ".", "j", "p", "g", "\n">>, <<>>),
     id |-> <<"a", "t", "t", "2", "8">>]

ProcessPool ==
    { AttPdf, AttDoc, AttPNG, AttJpeg, AttMovParams, AttGifTxt, AttTxtQueryPng,
      AttJpgLineFeed }

\* response["results"]: up to MaxResults attachments, each listed once
ResultsPool ==
    UNION {{results \in [1..n -> ProcessPool] :
               \A i, j \in 1..n : i # j => results[i] # results[j]} : n \in 0..MaxResults}

ProcessAttachments(results) ==
    /\ fetch_calls = <<>>
    /\ FetchReturned(process_attachments(run_io, [downloads |-> EmptyDict], results,
                                         FetchFolder, attachment_duplicate_file_names,
                                         attachment_file_matching))
    /\ fetch_calls' = <<results>>
    /\ UNCHANGED not_fetch

NextProcess == \E results \in ResultsPool : ProcessAttachments(results)

SpecProcess == InitFetch /\ [][NextProcess]_vars

\* The attachments of the pool whose URL path ends, whatever the case of
\* its letters, in one of the six media extensions: c.PNG, d.jpeg, e.mov
\* (the path of e.mov;x=1) and h.jpg.
MediaOfPool == {AttPNG, AttJpeg, AttMovParams, AttJpgLineFeed}

\* The download URL is that of a media attachment of the pool.
HasMediaPath(url) == \E att \in MediaOfPool : att.download = url

\* The attachments of the response that are no media, in response order.
Documents(results) ==
    LET IsDocument(att) == ~HasMediaPath(att.download)
    IN  SelectSeq(results, IsDocument)

\* The transfers of the call that were asked of a download URL of the
\* response, in the order they were made.
ListedTransfers(results) ==
    LET IsListed(e) == e.ev = "download"
                       /\ \E i \in 1..Len(results) : results[i].download = e.url
    IN  SelectSeq(run_io.log, IsListed)

\* C26: a process_attachments call makes no transfer for and lists no
\* attachment whose URL path ends, case-insensitively, in .jpg, .jpeg, .png,
\* .gif, .mp4 or .mov, and makes one download_attachment call, in response
\* order, for each other attachment: the primary transfers of the call and
\* the entries of child_attachments are those of the other attachments, one
\* each, in response order.
C26_MediaSkippedOthersInOrder ==
    fetch_calls # <<>> =>
       /\ fetched.exc = ""
       /\ Len(ListedTransfers(fetch_calls[1])) = Len(Documents(fetch_calls[1]))
       /\ Len(fetched.val.child_attachments) = Len(Documents(fetch_calls[1]))
       /\ \A i \in 1..Len(Documents(fetch_calls[1])) :
             /\ ListedTransfers(fetch_calls[1])[i].url = Documents(fetch_calls[1])[i].download
             /\ ListedTransfers(fetch_calls[1])[i].path
                   = fetched.val.child_attachments[i].file_path

\* A response with a document, then an image with an upper-case extension,
\* then another document: two entries were listed.
C26_Witness ==
    /\ fetch_calls # <<>>
    /\ Len(fetch_calls[1]) = 3
    /\ ~HasMediaPath(fetch_calls[1][1].download)
    /\ HasMediaPath(fetch_calls[1][2].download)
    /\ ~is_skipped_case_sensitive(fetch_calls[1][2].download)
    /\ ~HasMediaPath(fetch_calls[1][3].download)
    /\ Len(fetched.val.child_attachments) = 2

-----------------------------------------------------------------------------
(* create_html_index on the path collections fetch_page_recursively builds *)

MaxPages == 4

IndexTitles == { S_Home, S_Kid_One }

\* Line 396: the path collection of a page without children
IndexedPage(title) ==
    [file_path |-> title \o <<".", "h", "t", "m", "l">>, page_title |-> title,
     child_pages |-> <<>>, child_attachments |-> <<>>]

\* A dict that lacks the key file_path
Unfiled(title) == [page_title |-> title, child_pages |-> <<>>]

RECURSIVE Pages(_)
RECURSIVE PagesFrom(_, _)

\* The number of nodes of a path collection
Pages(content) == 1 + PagesFrom(content.child_pages, 1)

PagesFrom(children, i) ==
    IF i > Len(children) THEN 0 ELSE Pages(children[i]) + PagesFrom(children, i + 1)

RECURSIVE InnerPages(_)
RECURSIVE InnerPagesFrom(_, _)

\* The number of nodes that have children
InnerPages(content) ==
    (IF Len(content.child_pages) > 0 THEN 1 ELSE 0) + InnerPagesFrom(content.child_pages, 1)

InnerPagesFrom(children, i) ==
    IF i > Len(children) THEN 0
    ELSE InnerPages(children[i]) + InnerPagesFrom(children, i + 1)

RECURSIVE AllFiled(_)
\* Every node has a file_path
AllFiled(content) ==
    /\ "file_path" \in DOMAIN content
    /\ \A i \in 1..Len(content.child_pages) : AllFiled(content.child_pages[i])

Indexed(content) ==
    /\ index_input' = content
    /\ html_index' = create_html_index(content)
    /\ UNCHANGED not_index

\* The call on a page without children, or on a dict without file_path
IndexPage(title, filed) ==
    /\ index_input = NoDict
    /\ Indexed(IF filed THEN IndexedPage(title) ELSE Unfiled(title))

\* The call after one more child was appended (lines 479-480)
IndexChildAppended(title) ==
    /\ index_input # NoDict
    /\ Pages(index_input) < MaxPages
    /\ Indexed([index_input EXCEPT !.child_pages = Append(@, IndexedPage(title))])

\* The call on the parent whose only child is the collection indexed last
IndexParent(title) ==
    /\ index_input # NoDict
    /\ Pages(index_input) < MaxPages
    /\ Indexed([IndexedPage(title) EXCEPT !.child_pages = <<index_input>>])

NextIndex ==
    \/ \E title \in IndexTitles, filed \in BOOLEAN : IndexPage(title, filed)
    \/ \E title \in IndexTitles : IndexChildAppended(title)
    \/ \E title \in IndexTitles : IndexParent(title)

InitIndex ==
    /\ IdleNames
    /\ IdleDerive
    /\ IdleFetch
    /\ IdleIO
    /\ IdleRewrite
    /\ IdleMain
    /\ IdleIndex

SpecIndex == InitIndex /\ [][NextIndex]_vars

RECURSIVE CountStr(_, _)
\* s.count(pat)
CountStr(s, pat) ==
    IF FindStr(s, pat) = -1 THEN 0
    ELSE 1 + CountStr(Slice(s, FindStr(s, pat) + Len(pat), Len(s)), pat)

RECURSIVE ChildItems(_, _)
\* One list item per child from child i on, each holding the index the call
\* gives for the child alone
ChildItems(children, i) ==
    IF i > Len(children) THEN <<>>
    ELSE <<"\t", "<", "l", "i", ">">> \o create_html_index(children[i]).val
           \o <<"<", "/", "l", "i", ">", "\n">> \o ChildItems(children, i + 1)

\* The link create_html_index makes for a node
NodeLink(content) == index_link(content, encode_url(content.file_path).val)

\* C27: create_html_index returns False for a root without file_path; for
\* a tree whose every node has one it returns markup with one link per node,
\* one list per node that has children and one list item per node below the
\* root; a leaf is its link alone, and a node with children is its link, then
\* one list whose items are the children's indexes in order.
C27_IndexStructure ==
    index_input # NoDict =>
       /\ html_index.exc = ""
       /\ "file_path" \notin DOMAIN index_input => html_index.val = False
       /\ AllFiled(index_input) =>
            /\ CountStr(html_index.val, <<"<", "a", " ", "h", "r", "e", "f", "=">>) = Pages(index_input)
            /\ CountStr(html_index.val, <<"<", "u", "l", ">">>) = InnerPages(index_input)
            /\ CountStr(html_index.val, <<"<", "/", "u", "l", ">">>) = InnerPages(index_input)
            /\ CountStr(html_index.val, <<"<", "l", "i", ">">>) = Pages(index_input) - 1
            /\ Len(index_input.child_pages) = 0 =>
                  html_index.val = NodeLink(index_input)
            /\ Len(index_input.child_pages) > 0 =>
                  html_index.val = NodeLink(index_input) \o <<"<", "u", "l", ">">> \o <<"\n">>
                                      \o ChildItems(index_input.child_pages, 1)
                                      \o <<"<", "/", "u", "l", ">">> \o <<"\n">>

\* The index of a root with two children, the first of which has a child.
C27_Witness ==
    /\ index_input # NoDict
    /\ AllFiled(index_input)
    /\ Len(index_input.child_pages) = 2
    /\ Len(index_input.child_pages[1].child_pages) = 1
    /\ Len(index_input.child_pages[2].child_pages) = 0
    /\ html_index.exc = ""
    /\ CountStr(html_index.val, <<"<", "u", "l", ">">>) = 2

\* C25: where a written page document had a link by page id to a page of
\* the space whose document was written too, the link's target in the
\* document is the name of a forwarding document in the space folder.
C25_PageIdLinkMeetsForwarder ==
    \A i \in 1..Len(walks) :
       \A id \in DOMAIN remotes[i].pages :
          \A path \in PageDocs(i, id) :
             \A k \in 1..Len(remotes[i].pages[id].body) :
                (/\ ~remotes[i].pages[id].parser_fails
                 /\ IsPageIdLink(remotes[i].pages[id].body[k])
                 /\ \E to \in DOMAIN remotes[i].pages :
                       /\ remotes[i].pages[id].body[k].href = S_viewpage \o to
                       /\ PageDocs(i, to) # {})
                => /\ PathJoin(walks[i].space_folder,
                               decode_url(run_io.fs[path].content.body[k].href))
                         \in DOMAIN run_io.fs
                   /\ "forward_to" \in DOMAIN
                         run_io.fs[PathJoin(walks[i].space_folder,
                             decode_url(run_io.fs[path].content.body[k].href))].content

-----------------------------------------------------------------------------
(* Progress of main *)

\* Line 576: the loop makes its next pass.  In a behaviour of Spec these are
\* the ExportSpace steps, and one is possible exactly when ExportSpace is.
NextPass ==
    /\ pc = "spaces"
    /\ space_counter < Len(spaces_to_export)
    /\ space_counter' = space_counter + 1

\* main is one thread that runs its next statement until it returns or an
\* exception leaves it: it starts, makes each pass of its loop and leaves
\* the loop.
SpecFair ==
    /\ Init
    /\ [][Next]_vars
    /\ WF_vars(MainStart)
    /\ WF_space_counter(NextPass)
    /\ WF_vars(MainFinish)

\* C28: main reaches its finished output after the last requested space.
C28_MainFinishes == <>(pc = "finished")

====
